---- MODULE Spec2Model ----
(***************************************************************************)
(* Tile-generation parameter selection and build orchestration of          *)
(* processing/runCreateTiles.py: the geometry classifier, the layer rule   *)
(* resolver, the tippecanoe command planners and the build orchestrator.   *)
(*                                                                         *)
(* Python strings are TLA+ strings; a Python list of strings is a sequence *)
(* of strings.  None and the empty string are both written "" where the    *)
(* code only tests truthiness.                                             *)
(***************************************************************************)
EXTENDS Integers, Sequences, FiniteSets, TLC

VARIABLES
    pc,               \* position of the running operation
    layer_name,       \* get_layer_tippecanoe_settings: declared layer name
    filename_or_path, \* get_layer_tippecanoe_settings: second argument
    disk,             \* the files of that name, per directory
    settings,         \* get_layer_tippecanoe_settings: returned list
    detect_calls,     \* files detect_geometry_type was called on
    file_path,        \* detect_geometry_type: its argument
    geometry_type,    \* detect_geometry_type: returned category
    geometry_types,   \* detect_geometry_type: the geometry types sampled
    escaped,          \* exception class that reached the caller, or "none"
    extent,           \* extent_xmin, extent_ymin, extent_xmax, extent_ymax
    cmd,              \* the argument vector a command planner returned
    tool_installed,   \* whether the tippecanoe binary can be located
    skip,             \* create_building_tiles: skip_low_lod, skip_medium_lod, skip_high_lod
    data_dir,         \* names of the files in DATA_DIR
    overture_dir,     \* names of the files in OVERTURE_DATA_DIR
    custom_dirs,      \* names of the files in the other directories a custom
                      \* input is looked for in, per directory
    theme_filter,     \* process_to_tiles: theme_filter ("" for None)
    filter_pattern,   \* process_to_tiles: filter_pattern ("" for None)
    theme_i,          \* process_to_tiles: index of the theme the loop is at
    invocations,      \* the subprocess.run calls made, in order, with their outcome
    log,              \* the SUCCESS and ERROR lines printed, in order
    custom_inputs,    \* process_to_tiles: custom_inputs (<<>> for None)
    returned,         \* the value the last completed function returned
    tile_dir,         \* names of the files in TILE_DIR other than tilejson.json
    manifest,         \* the file TILE_DIR / "tilejson.json"
    command,          \* __main__: args.command ("" outside a command run)
    steps,            \* __main__: the calls of download_source_data and
                      \* create_tilejson made, each with the number of
                      \* subprocess.run calls made before it
    plans,            \* the planner calls made on one interpreter, in order,
                      \* each with its arguments, the files it could read,
                      \* the list object it returned and the items of that
                      \* list at the return
    heap              \* the list objects the planner calls created on that
                      \* interpreter: heap[r] is the items object r holds now

resolver_vars == <<layer_name, filename_or_path, disk, settings, detect_calls>>
classifier_vars == <<file_path, geometry_type, geometry_types>>
planner_vars == <<extent, cmd>>
run_vars == <<tool_installed, skip, data_dir, overture_dir, custom_dirs, theme_filter,
              filter_pattern, theme_i, invocations, log, custom_inputs, returned>>
output_vars == <<tile_dir, manifest>>
main_vars == <<command, steps>>
trace_vars == <<plans, heap>>

vars == <<pc, escaped, resolver_vars, classifier_vars, planner_vars, run_vars,
          output_vars, main_vars, trace_vars>>

----------------------------------------------------------------------------
(* Bounds of the model *)

MaxLines == 3        \* lines of a newline-delimited input file
MaxFeatures == 2     \* features of a FeatureCollection document

----------------------------------------------------------------------------
(* Strings *)

CharAt(s, i) == SubSeq(s, i, i)

Range(f) == {f[i] : i \in DOMAIN f}

\* Python: k in s  (substring test)
Contains(s, k) ==
    \E i \in 1..(Len(s) - Len(k) + 1) : SubSeq(s, i, i + Len(k) - 1) = k

UpperAlpha == "ABCDEFGHIJKLMNOPQRSTUVWXYZ"
LowerAlpha == "abcdefghijklmnopqrstuvwxyz"
LowerMap ==
    [c \in {CharAt(UpperAlpha, i) : i \in 1..Len(UpperAlpha)} |->
        CharAt(LowerAlpha, CHOOSE i \in 1..Len(UpperAlpha) : CharAt(UpperAlpha, i) = c)]

LowerChar(c) == IF c \in DOMAIN LowerMap THEN LowerMap[c] ELSE c

\* Python: s.lower()
RECURSIVE Lower(_)
Lower(s) ==
    IF s = "" THEN "" ELSE LowerChar(CharAt(s, 1)) \o Lower(SubSeq(s, 2, Len(s)))

\* Python: s.endswith(e)
EndsWith(s, e) ==
    Len(s) >= Len(e) /\ SubSeq(s, Len(s) - Len(e) + 1, Len(s)) = e

\* Python: name.rfind('.') + 1  (0 when there is no dot)
RFindDot(name) ==
    IF \E i \in 1..Len(name) : CharAt(name, i) = "."
    THEN CHOOSE i \in 1..Len(name) :
            /\ CharAt(name, i) = "."
            /\ \A j \in (i + 1)..Len(name) : CharAt(name, j) # "."
    ELSE 0

\* pathlib PurePath.suffix of a final path component
Suffix(name) ==
    LET i == RFindDot(name)
    IN  IF 1 < i /\ i < Len(name) THEN SubSeq(name, i, Len(name)) ELSE ""

\* pathlib PurePath.stem of a final path component
Stem(name) ==
    LET i == RFindDot(name)
    IN  IF 1 < i /\ i < Len(name) THEN SubSeq(name, 1, i - 1) ELSE name

----------------------------------------------------------------------------
(* Feature-collection files as the classifier reads them.                  *)
(*                                                                         *)
(* A file is a sequence of text lines.  A line is blank, is not JSON, or   *)
(* is one complete JSON value.  A file with pretty = TRUE holds the single *)
(* JSON value lines[1].v spread over several text lines, none of which is  *)
(* JSON by itself.                                                         *)

\* coords: the geometry has a "coordinates" member that is not empty
GeomAbsent == [gk |-> "absent", type |-> "", coords |-> FALSE]   \* no "geometry" member
GeomNull   == [gk |-> "null",   type |-> "", coords |-> FALSE]   \* "geometry": null
GeomNoType == [gk |-> "notype", type |-> "", coords |-> TRUE]    \* an object without "type"
GeomNumber == [gk |-> "number", type |-> "", coords |-> FALSE]   \* "geometry": 5
GeomTyped(t) == [gk |-> "object", type |-> t, coords |-> TRUE]   \* {"type": t, ...}
\* {"type": t, "coordinates": []}
GeomEmpty(t) == [gk |-> "object", type |-> t, coords |-> FALSE]

GeomTypes == {"Point", "MultiPoint", "LineString", "MultiLineString",
              "Polygon", "MultiPolygon", "GeometryCollection"}

Geoms == {GeomAbsent, GeomNull, GeomNoType, GeomNumber}
            \cup {GeomTyped(t) : t \in GeomTypes}

Feature(g) == [k |-> "Feature", geometry |-> g, features |-> <<>>]
FeatureCollection(fs) ==
    [k |-> "FeatureCollection", geometry |-> GeomAbsent, features |-> fs]
Scalar == [k |-> "scalar", geometry |-> GeomAbsent, features |-> <<>>]
OtherObject == [k |-> "object", geometry |-> GeomAbsent, features |-> <<>>]

Blank == [lk |-> "blank", v |-> Scalar]
Garbage == [lk |-> "garbage", v |-> Scalar]
JsonLine(v) == [lk |-> "json", v |-> v]

SeqsUpTo(S, n) == UNION {[1..m -> S] : m \in 0..n}

FeatureValues == {Feature(g) : g \in Geoms}
LineValues == FeatureValues \cup {Scalar, OtherObject}
LineAlphabet == {Blank, Garbage} \cup {JsonLine(v) : v \in LineValues}
DocValues ==
    {FeatureCollection(fs) : fs \in SeqsUpTo(FeatureValues \cup {Scalar}, MaxFeatures)}

TextFile(pretty, lines) ==
    [exists |-> TRUE, readable |-> TRUE, pretty |-> pretty, lines |-> lines]
NoFile == [exists |-> FALSE, readable |-> FALSE, pretty |-> FALSE, lines |-> <<>>]
Unreadable == [exists |-> TRUE, readable |-> FALSE, pretty |-> FALSE, lines |-> <<>>]

LineFiles == {TextFile(FALSE, ls) : ls \in SeqsUpTo(LineAlphabet, MaxLines)}
DocFiles ==
    {TextFile(p, <<JsonLine(v)>>) : p \in BOOLEAN, v \in DocValues \cup FeatureValues}
FileSet == LineFiles \cup DocFiles \cup {NoFile, Unreadable}

\* the text lines a line-by-line read of the file yields
PhysicalLines(file) ==
    IF file.pretty THEN <<Garbage, Garbage, Garbage>> ELSE file.lines

\* str.strip() of line i ("" past the end of the file); a non-empty
\* stripped line is "garbage" or "json"
StrippedLine(file, i) ==
    LET ls == PhysicalLines(file)
    IN  IF i <= Len(ls) THEN ls[i] ELSE Blank

NonBlank(ls) == SelectSeq(ls, LAMBDA l : l.lk # "blank")

\* json.load(f): the value of the whole text, or a JSONDecodeError
JsonLoad(file) ==
    IF file.pretty THEN [ok |-> TRUE, v |-> file.lines[1].v]
    ELSE LET nb == NonBlank(file.lines)
         IN  IF Len(nb) = 1 /\ nb[1].lk = "json"
             THEN [ok |-> TRUE, v |-> nb[1].v]
             ELSE [ok |-> FALSE, v |-> Scalar]

----------------------------------------------------------------------------
(* detect_geometry_type *)

max_samples == 100

\* isinstance(obj, dict) and obj.get('type') == 'Feature'
IsFeatureObject(v) == v.k = "Feature"

\* lines 626-646: the first two lines are both complete Feature objects
is_line_delimited(file) ==
    LET first == StrippedLine(file, 1)
        second == StrippedLine(file, 2)
    IN  /\ first.lk = "json"
        /\ IsFeatureObject(first.v)
        /\ second.lk = "json"
        /\ IsFeatureObject(second.v)

\* 'geometry' in feature and feature['geometry'] and 'type' in feature['geometry']
\* "add": the type is sampled; "skip": the test is false; "raise": TypeError
GeometryTest(v) ==
    CASE v.k = "scalar" -> "raise"
      [] v.k = "Feature" /\ v.geometry.gk = "object" -> "add"
      [] v.k = "Feature" /\ v.geometry.gk = "number" -> "raise"
      [] OTHER -> "skip"

\* the first of the places, or none when there is no place
FirstPlace(places, none) ==
    IF places = {} THEN none ELSE CHOOSE k \in places : \A m \in places : k <= m

\* the lines from line i on that hold a JSON value with the given outcome of
\* the geometry test
LinesWith(ls, i, outcome) ==
    {k \in i..Len(ls) : ls[k].lk = "json" /\ GeometryTest(ls[k].v) = outcome}

\* line 650: sample_count when the loop is at line k
CountBefore(acc, adds, k) == acc.count + Cardinality({j \in adds : j < k})

\* lines 650-660: the samples when the loop has ended
ScanLinesEnd(ls, acc, sampled, raises) ==
    [acc EXCEPT !.types = @ \cup {ls[k].v.geometry.type : k \in sampled},
                !.count = @ + Cardinality(sampled),
                !.exc = IF raises = {} THEN @ ELSE "TypeError"]

\* lines 650-660: the lines sampled are those before the first line that
\* raises, looked at while sample_count is below max_samples
ScanLinesUntil(ls, acc, adds, raises) ==
    ScanLinesEnd(ls, acc,
                 {k \in adds : /\ k < FirstPlace(raises, Len(ls) + 1)
                               /\ CountBefore(acc, adds, k) < max_samples},
                 raises)

\* lines 650-655: a line raises only when it is looked at
ScanLinesOver(ls, i, acc, adds) ==
    ScanLinesUntil(ls, acc, adds,
                   {k \in LinesWith(ls, i, "raise") :
                       CountBefore(acc, adds, k) < max_samples})

\* lines 650-660: the loop over the lines of a newline-delimited file from
\* line i on. A line is looked at when it is not blank and sample_count is
\* below max_samples; the TypeError of the first such line that raises one
\* ends the loop
ScanLines(ls, i, acc) == ScanLinesOver(ls, i, acc, LinesWith(ls, i, "add"))

\* the features from the i-th to the last with the given outcome of the
\* geometry test
FeaturesWith(fs, i, last, outcome) ==
    {k \in i..last : GeometryTest(fs[k]) = outcome}

\* lines 666-670: the samples when the loop has ended
ScanFeaturesEnd(fs, acc, sampled, raises) ==
    [acc EXCEPT !.types = @ \cup {fs[k].geometry.type : k \in sampled},
                !.count = @ + Cardinality(sampled),
                !.exc = IF raises = {} THEN @ ELSE "TypeError"]

\* lines 666-670: the features sampled are those before the first that raises
ScanFeaturesUntil(fs, i, last, acc, raises) ==
    ScanFeaturesEnd(fs, acc,
                    {k \in FeaturesWith(fs, i, last, "add") :
                        k < FirstPlace(raises, last + 1)},
                    raises)

\* line 666: data['features'][:max_samples] ends at the last-th feature
ScanFeaturesSlice(fs, i, last, acc) ==
    ScanFeaturesUntil(fs, i, last, acc, FeaturesWith(fs, i, last, "raise"))

\* lines 666-670: the loop over data['features'][:max_samples] from the
\* i-th feature on; the TypeError of the first feature that raises one ends it
ScanFeatures(fs, i, acc) ==
    ScanFeaturesSlice(fs, i, IF Len(fs) < max_samples THEN Len(fs) ELSE max_samples, acc)

NoSamples == [types |-> {}, count |-> 0, exc |-> "none", early |-> FALSE]

\* lines 663-675: a single JSON document
ScanDocument(file) ==
    LET data == JsonLoad(file)
    IN  IF ~data.ok THEN [NoSamples EXCEPT !.early = TRUE]
        ELSE CASE data.v.k = "scalar" -> [NoSamples EXCEPT !.exc = "TypeError"]
               [] data.v.k = "FeatureCollection" ->
                    ScanFeatures(data.v.features, 1, NoSamples)
               [] data.v.k = "Feature" /\ data.v.geometry.gk = "object" ->
                    [NoSamples EXCEPT !.types = {data.v.geometry.type}]
               [] data.v.k = "Feature" /\ data.v.geometry.gk = "number" ->
                    [NoSamples EXCEPT !.exc = "TypeError"]
               [] OTHER -> NoSamples

\* lines 623-675: the body of the with-block
Sample(fp) ==
    IF ~fp.file.exists \/ ~fp.file.readable
    THEN [NoSamples EXCEPT !.exc = "OSError"]
    ELSE IF Suffix(fp.name) = ".geojsonseq" \/ is_line_delimited(fp.file)
         THEN ScanLines(PhysicalLines(fp.file), 1, NoSamples)
         ELSE ScanDocument(fp.file)

\* lines 677-687
NormalizeType(t) ==
    CASE t \in {"Point", "MultiPoint"} -> "Point"
      [] t \in {"LineString", "MultiLineString"} -> "LineString"
      [] t \in {"Polygon", "MultiPolygon"} -> "Polygon"
      [] OTHER -> t

normalized_types(types) == {NormalizeType(t) : t \in types}

\* lines 689-695
PrimaryType(norm) ==
    IF Cardinality(norm) = 1 THEN CHOOSE t \in norm : TRUE
    ELSE IF Cardinality(norm) > 1 THEN "Mixed"
    ELSE "Unknown"

\* an outer handler that catches JSONDecodeError only
OuterExcept_json_only(exc) == exc = "JSONDecodeError"

\* line 697: except Exception
OuterExcept(exc) == exc \in {"OSError", "TypeError", "JSONDecodeError"}

\* the run of detect_geometry_type: its result and the exception, if any,
\* that leaves it
DetectRun(fp) ==
    LET s == Sample(fp)
    IN  IF s.exc # "none"
        THEN IF OuterExcept(s.exc)
             THEN [result |-> "Unknown", escaped |-> "none", sample |-> s]
             ELSE [result |-> "", escaped |-> s.exc, sample |-> s]
        ELSE IF s.early
             THEN [result |-> "Unknown", escaped |-> "none", sample |-> s]
             ELSE [result |-> PrimaryType(normalized_types(s.types)),
                   escaped |-> "none", sample |-> s]

detect_geometry_type(fp) == DetectRun(fp).result

----------------------------------------------------------------------------
(* validate_geojson *)

\* lines 584-585: feature.get('geometry') and feature['geometry'].get('coordinates')
\* "keep": the test is true; "drop": it is false; "raise": the feature, or its
\* geometry, is a number, which has no get (AttributeError)
CoordinatesTest(v) ==
    CASE v.k = "scalar" -> "raise"
      [] v.geometry.gk = "number" -> "raise"
      [] v.geometry.gk \in {"absent", "null"} -> "drop"
      [] OTHER -> IF v.geometry.coords THEN "keep" ELSE "drop"

\* lines 583-586: the features the test keeps, in their order
KeptFeatures(fs) == SelectSeq(fs, LAMBDA v : CoordinatesTest(v) = "keep")

\* lines 588-589: json.dump(data, f) writes the value on one line
Dumped(v) == TextFile(FALSE, <<JsonLine(v)>>)

\* what a run of validate_geojson leaves: the file, and the exception, if
\* any, that leaves the function
Validated(file, exc) == [file |-> file, exc |-> exc]

\* lines 582-589 for the value json.load gave
ValidateValue(file, v) ==
    CASE v.k = "scalar" -> Validated(file, "TypeError")
      [] v.k = "FeatureCollection" ->
            IF \E i \in DOMAIN v.features : CoordinatesTest(v.features[i]) = "raise"
            THEN Validated(file, "AttributeError")
            ELSE Validated(Dumped(FeatureCollection(KeptFeatures(v.features))), "none")
      [] OTHER -> Validated(Dumped(v), "none")

\* lines 579-580 and on
ValidateLoaded(file, data) ==
    IF data.ok THEN ValidateValue(file, data.v)
    ELSE Validated(file, "JSONDecodeError")

\* lines 572-589; fp is the name of the file and what the path holds
validate_geojson(fp) ==
    IF Suffix(fp.name) = ".geojsonseq" THEN Validated(fp.file, "none")
    ELSE IF ~fp.file.exists \/ ~fp.file.readable THEN Validated(fp.file, "OSError")
    ELSE ValidateLoaded(fp.file, JsonLoad(fp.file))

----------------------------------------------------------------------------
(* get_layer_tippecanoe_settings *)

DATA_DIR == "processing/data"
OVERTURE_DATA_DIR == "overture/data"
OTHER_DIR == "elsewhere"
\* lines 355 and 357: PROJECT_ROOT / "processing" / "input" and "utilities"
INPUT_DIR == "processing/input"
UTILITIES_DIR == "processing/utilities"
\* a directory given by an absolute path
ABSOLUTE_DIR == "/srv/custom"
CustomDirs == {INPUT_DIR, UTILITIES_DIR, ABSOLUTE_DIR}
Dirs == {DATA_DIR, OVERTURE_DATA_DIR, OTHER_DIR} \cup CustomDirs

\* the second argument: nothing, a filename string, or a Path object
NoArg == [kind |-> "none", name |-> "", dir |-> ""]
StrArg(name) == [kind |-> "str", name |-> name, dir |-> ""]
PathArg(dir, name) == [kind |-> "path", name |-> name, dir |-> dir]

water_settings ==
    <<"--simplification=2", "--low-detail=11", "--full-detail=13",
      "--no-tiny-polygon-reduction", "--no-feature-limit",
      "--extend-zooms-if-still-dropping", "--maximum-tile-bytes=2097152",
      "--maximum-zoom=15", "--gamma=0.9">>

settlement_extents_settings ==
    <<"--simplification=5", "--drop-rate=0.25", "--low-detail=11",
      "--full-detail=14", "--coalesce-smallest-as-needed", "--gamma=0.8",
      "--maximum-zoom=13", "--minimum-zoom=6", "--cluster-distance=2",
      "--minimum-detail=8">>

roads_settings ==
    <<"--no-line-simplification", "--buffer=16", "--drop-rate=0.05",
      "--drop-smallest", "--simplification=5", "--minimum-zoom=7",
      "--extend-zooms-if-still-dropping", "--coalesce-smallest-as-needed",
      "--full-detail=13", "--minimum-detail=10">>

places_settings == <<"--cluster-distance=35", "--drop-rate=0.1">>

base_polygons_settings ==
    <<"--simplification=5", "--drop-rate=0.1", "--low-detail=10",
      "--full-detail=14", "--coalesce-smallest-as-needed", "--maximum-zoom=15",
      "--minimum-zoom=9", "--no-tiny-polygon-reduction">>

point_settings ==
    <<"--cluster-distance=35", "--drop-rate=0.05", "--low-detail=8",
      "--full-detail=11", "--coalesce-smallest-as-needed",
      "--extend-zooms-if-still-dropping", "--gamma=0.3", "--maximum-zoom=15",
      "--minimum-zoom=6", "--simplification=1">>

linestring_settings ==
    <<"--no-line-simplification", "--drop-rate=0.08", "--low-detail=9",
      "--full-detail=12", "--coalesce-smallest-as-needed",
      "--extend-zooms-if-still-dropping", "--gamma=0.4", "--maximum-zoom=15",
      "--minimum-zoom=7", "--simplification=3", "--buffer=12">>

polygon_settings ==
    <<"--simplification=5", "--drop-rate=0.1", "--low-detail=10",
      "--full-detail=13", "--coalesce-smallest-as-needed",
      "--extend-zooms-if-still-dropping", "--gamma=0.5", "--maximum-zoom=15",
      "--minimum-zoom=8", "--no-tiny-polygon-reduction">>

mixed_settings ==
    <<"--simplification=3", "--drop-rate=0.08", "--low-detail=9",
      "--full-detail=12", "--coalesce-smallest-as-needed",
      "--extend-zooms-if-still-dropping", "--gamma=0.4", "--maximum-zoom=15",
      "--minimum-zoom=7">>

\* lines 719-735: filename and file_path from the second argument
ArgFilename(arg) == arg.name

ArgFile(arg, d) ==
    CASE arg.kind = "path" -> [found |-> TRUE, file |-> d[arg.dir]]
      [] arg.kind = "str" /\ arg.name # "" /\ d[DATA_DIR].exists ->
            [found |-> TRUE, file |-> d[DATA_DIR]]
      [] arg.kind = "str" /\ arg.name # "" /\ d[OVERTURE_DATA_DIR].exists ->
            [found |-> TRUE, file |-> d[OVERTURE_DATA_DIR]]
      [] OTHER -> [found |-> FALSE, file |-> NoFile]

\* lines 741-758: the layer type the declared name selects, "" for None
LayerTypeFromName(name) ==
    IF name = "" THEN ""
    ELSE LET n == Lower(name)
         IN  CASE n \in {"water"} -> "water"
               [] n \in {"settlement-extents", "settlementextents"} -> "settlement-extents"
               [] n \in {"roads"} -> "roads"
               [] n \in {"places", "placenames"} -> "places"
               [] n \in {"land_use", "land_cover", "land_residential", "infrastructure"} ->
                    "base-polygons"
               [] OTHER -> ""

land_keywords == {"land_use", "land_cover", "land_residential", "infrastructure", "land"}

\* the filename patterns with water tested before the land keywords
LayerTypeFromFilename_water_first(filename) ==
    IF filename = "" THEN ""
    ELSE LET f == Lower(filename)
         IN  CASE Contains(f, "water") -> "water"
               [] \E keyword \in land_keywords : Contains(f, keyword) -> "base-polygons"
               [] Contains(f, "extents") \/ Contains(f, "settlement") -> "settlement-extents"
               [] Contains(f, "roads") -> "roads"
               [] Contains(f, "places") \/ Contains(f, "placenames") -> "places"
               [] OTHER -> ""

\* lines 760-780: the layer type the filename selects, "" for None
LayerTypeFromFilename(filename) ==
    IF filename = "" THEN ""
    ELSE LET f == Lower(filename)
         IN  CASE \E keyword \in land_keywords : Contains(f, keyword) -> "base-polygons"
               [] Contains(f, "water") -> "water"
               [] Contains(f, "extents") \/ Contains(f, "settlement") -> "settlement-extents"
               [] Contains(f, "roads") -> "roads"
               [] Contains(f, "places") \/ Contains(f, "placenames") -> "places"
               [] OTHER -> ""

\* the filename consulted before the declared name
LayerType_filename_first(name, arg) ==
    IF LayerTypeFromFilename(ArgFilename(arg)) # ""
    THEN LayerTypeFromFilename(ArgFilename(arg))
    ELSE LayerTypeFromName(name)

\* lines 737-780
LayerType(name, arg) ==
    IF LayerTypeFromName(name) # "" THEN LayerTypeFromName(name)
    ELSE LayerTypeFromFilename(ArgFilename(arg))

\* the geometry fallback without its final else branch
GeometrySettings_no_fallback(g) ==
    CASE g = "Point" -> point_settings
      [] g = "LineString" -> linestring_settings
      [] g = "Polygon" -> polygon_settings
      [] OTHER -> <<>>

\* lines 865-924: the geometry fallback sub-templates
GeometrySettings(g) ==
    CASE g = "Point" -> point_settings
      [] g = "LineString" -> linestring_settings
      [] g = "Polygon" -> polygon_settings
      [] OTHER -> mixed_settings

\* lines 786-851: the canonical template of a named bucket
BucketSettings(layer_type) ==
    CASE layer_type = "water" -> water_settings
      [] layer_type = "settlement-extents" -> settlement_extents_settings
      [] layer_type = "roads" -> roads_settings
      [] layer_type = "places" -> places_settings
      [] layer_type = "base-polygons" -> base_polygons_settings

\* the existence test dropped
ShouldDetect_without_exists(fp) == fp.found

\* line 856: if file_path and file_path.exists()
ShouldDetect(fp) == fp.found /\ fp.file.exists

\* lines 719-940: the run of the function: the layer type found, the files
\* handed to detect_geometry_type, the geometry type, the list returned and
\* the exception, if any, that leaves the function
ResolveRun(name, arg, d) ==
    LET layer_type == LayerType(name, arg)
        fp == ArgFile(arg, d)
    IN  IF layer_type # ""
        THEN [layer_type |-> layer_type, calls |-> <<>>, geometry_type |-> "",
              settings |-> BucketSettings(layer_type), escaped |-> "none"]
        ELSE IF ShouldDetect(fp)
        THEN LET run == DetectRun([name |-> arg.name, file |-> fp.file])
             IN  IF run.escaped # "none"
                 THEN [layer_type |-> "", calls |-> <<fp.file>>, geometry_type |-> "",
                       settings |-> <<>>, escaped |-> run.escaped]
                 ELSE [layer_type |-> "", calls |-> <<fp.file>>,
                       geometry_type |-> run.result,
                       settings |-> GeometrySettings(run.result), escaped |-> "none"]
        ELSE [layer_type |-> "", calls |-> <<>>, geometry_type |-> "Unknown",
              settings |-> GeometrySettings("Unknown"), escaped |-> "none"]

get_layer_tippecanoe_settings(name, arg, d) == ResolveRun(name, arg, d).settings

----------------------------------------------------------------------------
(* The command planners *)

TILE_DIR == "processing/tiles"

\* str(path) of a file name in a directory
PathStr(dir, name) == dir \o "/" \o name

\* f"{x}" of a float: its repr
FloatStr(x) == x.text

\* the clip string with the values in the order xmin, xmax, ymin, ymax
ClipBoundingBox_xxyy(e) ==
    FloatStr(e.xmin) \o "," \o FloatStr(e.xmax) \o "," \o FloatStr(e.ymin)
        \o "," \o FloatStr(e.ymax)

\* f"{extent_xmin},{extent_ymin},{extent_xmax},{extent_ymax}"
ClipBoundingBox(e) ==
    FloatStr(e.xmin) \o "," \o FloatStr(e.ymin) \o "," \o FloatStr(e.xmax)
        \o "," \o FloatStr(e.ymax)

\* lines 945-965: the items of base_cmd; input_path is a Path object
CommandBase(input_path, tile_path, name, e) ==
    <<"tippecanoe", "-fo", tile_path, "-zg", "-l", name, "--single-precision",
      "--clip-bounding-box", ClipBoundingBox(e),
      "--buffer=8", "--no-polygon-splitting", "--detect-shared-borders",
      "--drop-smallest", "--maximum-tile-bytes=1048576", "--preserve-input-order",
      "--coalesce-densest-as-needed", "--drop-fraction-as-needed",
      "-P", PathStr(input_path.dir, input_path.name)>>

\* lines 942-971: the items of the list returned
get_tippecanoe_command(input_path, tile_path, name, d, e) ==
    CommandBase(input_path, tile_path, name, e)
        \o get_layer_tippecanoe_settings(name, input_path, d)

\* lines 994-1012
LodSettings(lod_type) ==
    CASE lod_type = "low" -> <<"--simplification=10", "--drop-rate=0.5", "--buffer=8">>
      [] lod_type = "medium" -> <<"--simplification=5", "--drop-rate=0.333", "--buffer=8">>
      [] lod_type = "high" -> <<"--simplification=10", "--drop-rate=0.1", "--buffer=4">>
      [] OTHER -> <<>>

\* lines 973-1014; input_path is a Path object
get_building_tippecanoe_command(input_path, tile_path, name, lod_type, zoom_range, e) ==
    <<"tippecanoe", "-fo", tile_path,
      "-z" \o ToString(zoom_range.max), "-Z" \o ToString(zoom_range.min),
      "-l", name,
      "--clip-bounding-box", ClipBoundingBox(e),
      "--drop-smallest", "--coalesce-smallest-as-needed", "--detect-shared-borders",
      "--preserve-input-order", "--maximum-tile-bytes=1048576",
      "-P", PathStr(input_path.dir, input_path.name)>>
    \o LodSettings(lod_type)

\* lines 1219-1226: layer_files is the dict as a sequence of (layer, file) pairs
RECURSIVE LayerArgs(_)
LayerArgs(layer_files) ==
    IF layer_files = <<>> THEN <<>>
    ELSE LET lf == Head(layer_files)
         IN  (IF EndsWith(lf.file.name, ".geojsonseq")
              THEN <<"--named-layer", lf.layer \o ":" \o PathStr(lf.file.dir, lf.file.name)>>
              ELSE <<"-L", lf.layer \o ":" \o PathStr(lf.file.dir, lf.file.name)>>)
             \o LayerArgs(Tail(layer_files))

\* lines 1234-1238: primary_layer_map.get(theme_name), "" for None
primary_layer(theme_name) ==
    CASE theme_name = "base" -> "base-polygons"
      [] theme_name = "transportation" -> "roads"
      [] theme_name = "places" -> "places"
      [] OTHER -> ""

\* lines 1228-1243
ThemeSettings(theme_name, d) ==
    IF theme_name = "settlement-extents"
    THEN get_layer_tippecanoe_settings("settlement-extents", StrArg("settlement-extents"), d)
    ELSE IF primary_layer(theme_name) # ""
         THEN get_layer_tippecanoe_settings(primary_layer(theme_name), NoArg, d)
         ELSE <<>>

\* lines 1211-1217: the items of base_cmd
ThemeBase(theme_tile_path, e) ==
    <<"tippecanoe", "-fo", theme_tile_path, "-zg",
      "--clip-bounding-box", ClipBoundingBox(e), "--cluster-maxzoom=11">>

\* lines 1209-1245: the items of the list returned
get_theme_tippecanoe_command(theme_name, theme_tile_path, layer_files, d, e) ==
    ThemeBase(theme_tile_path, e)
        \o LayerArgs(layer_files)
        \o ThemeSettings(theme_name, d)

----------------------------------------------------------------------------
(* create_building_tiles *)

\* lines 1122-1138, in dict order; skip maps each tier to its skip_*_lod argument
LodTypes == <<"low", "medium", "high">>

lod_configs(skips) ==
    [lod_type \in Range(LodTypes) |->
        CASE lod_type = "low" ->
                [skip |-> skips["low"], zoom_range |-> [min |-> 0, max |-> 9],
                 suffix |-> "_low_lod"]
          [] lod_type = "medium" ->
                [skip |-> skips["medium"], zoom_range |-> [min |-> 11, max |-> 13],
                 suffix |-> "_medium_lod"]
          [] lod_type = "high" ->
                [skip |-> skips["high"], zoom_range |-> [min |-> 13, max |-> 15],
                 suffix |-> "_high_lod"]]

\* line 1116: skip_low_lod=False, skip_medium_lod=False, skip_high_lod=True
DefaultSkip == [lod_type \in Range(LodTypes) |-> lod_type = "high"]

\* What one subprocess.run(cmd, check=True) does: the tool exits with status 0
\* ("ok"), exits with another status ("fail", CalledProcessError), or cannot be
\* started because the binary is not found ("notfound", FileNotFoundError)
Outcomes(installed) == IF installed THEN {"ok", "fail"} ELSE {"notfound"}

\* line 1144: tile_dir / f"{base_name}{config['suffix']}.pmtiles"
LodPath(out_dir, geojson_file, suffix) ==
    PathStr(out_dir, Stem(geojson_file) \o suffix \o ".pmtiles")

\* lines 1147-1149: the call made for one tier, with the outcome it had
BuildingInvocation(input_path, out_dir, geojson_file, lod_type, config, e, outcome) ==
    [unit |-> "buildings",
     lod |-> lod_type,
     output |-> LodPath(out_dir, geojson_file, config.suffix),
     cmd |-> get_building_tippecanoe_command(
                 input_path, LodPath(out_dir, geojson_file, config.suffix),
                 "layer", lod_type, config.zoom_range, e),
     outcome |-> outcome]

\* lines 1140-1153: the loop over the tiers from tier i on; outcome_of gives the
\* outcome the tool has for each tier it is run for
RECURSIVE BuildingLoop(_, _, _, _, _, _, _)
BuildingLoop(input_path, out_dir, geojson_file, skips, e, outcome_of, i) ==
    IF i > Len(LodTypes)
    THEN [invocations |-> <<>>, log |-> <<>>, escaped |-> "none"]
    ELSE LET lod_type == LodTypes[i]
             config == lod_configs(skips)[lod_type]
             call == BuildingInvocation(input_path, out_dir, geojson_file, lod_type,
                                        config, e, outcome_of[lod_type])
             rest == BuildingLoop(input_path, out_dir, geojson_file, skips, e,
                                  outcome_of, i + 1)
         IN  IF config.skip
             THEN rest
             ELSE CASE call.outcome = "ok" ->
                          [invocations |-> <<call>> \o rest.invocations,
                           log |-> <<[kind |-> "success", unit |-> "buildings",
                                      lod |-> lod_type]>> \o rest.log,
                           escaped |-> rest.escaped]
                    [] call.outcome = "fail" ->
                          [invocations |-> <<call>>,
                           log |-> <<[kind |-> "error", unit |-> "buildings",
                                      lod |-> lod_type]>>,
                           escaped |-> "none"]
                    [] OTHER ->
                          [invocations |-> <<call>>, log |-> <<>>,
                           escaped |-> "FileNotFoundError"]

\* pathlib PurePath.name of a path given as a string
Basename(path) ==
    LET slashes == {i \in 1..Len(path) : CharAt(path, i) = "/"}
        last == IF slashes = {} THEN 0
                ELSE CHOOSE i \in slashes : \A j \in slashes : j <= i
    IN  SubSeq(path, last + 1, Len(path))

\* line 1149 and its like: what the runs of the external tool leave in the
\* output directory. A run that exits with status 0 has written its output
\* archive; a run that failed or could not start leaves the directory as it was
OkArchives(calls) ==
    {Basename(calls[i].output) : i \in {j \in 1..Len(calls) : calls[j].outcome = "ok"}}

\* lines 1116-1153
create_building_tiles(input_path, out_dir, geojson_file, skips, e, outcome_of) ==
    BuildingLoop(input_path, out_dir, geojson_file, skips, e, outcome_of, 1)

----------------------------------------------------------------------------
(* Inputs of the checked runs *)

PointsFile ==
    TextFile(FALSE, <<JsonLine(Feature(GeomTyped("Point"))),
                      JsonLine(Feature(GeomTyped("MultiPoint")))>>)
LinesFile == TextFile(FALSE, <<JsonLine(Feature(GeomTyped("MultiLineString")))>>)
PolygonsFile ==
    TextFile(TRUE, <<JsonLine(FeatureCollection(<<Feature(GeomTyped("MultiPolygon")),
                                                    Feature(GeomTyped("Polygon"))>>))>>)
MixedFile ==
    TextFile(FALSE, <<JsonLine(Feature(GeomTyped("Point"))),
                      JsonLine(Feature(GeomTyped("Polygon")))>>)
EmptyFile == TextFile(FALSE, <<>>)

ResolveContents == {PointsFile, LinesFile, PolygonsFile, MixedFile, EmptyFile, Unreadable}

NoDisk == [d \in Dirs |-> NoFile]

\* one file in one directory, or the same name in both data directories
DiskSet ==
    {NoDisk}
    \cup {[NoDisk EXCEPT ![DATA_DIR] = c] : c \in ResolveContents}
    \cup {[NoDisk EXCEPT ![OVERTURE_DATA_DIR] = c] : c \in {PointsFile, PolygonsFile}}
    \cup {[NoDisk EXCEPT ![OTHER_DIR] = c] : c \in {LinesFile, MixedFile}}
    \cup {[NoDisk EXCEPT ![DATA_DIR] = c1, ![OVERTURE_DATA_DIR] = c2] :
            c1 \in {PointsFile}, c2 \in {LinesFile, MixedFile}}

LayerNames ==
    {"", "water", "WATER", "settlement-extents", "settlementextents", "roads",
     "Roads", "places", "placenames", "land_use", "land_cover",
     "land_residential", "infrastructure", "layer", "base-polygons", "buildings"}

SingleWords ==
    {"land_use", "land_cover", "land_residential", "infrastructure", "island",
     "water", "extents", "settlement", "roads", "places", "placenames",
     "points", "Roads", "buildings"}
PairWords == {"land_use", "island", "water", "extents", "roads", "places"}

FileNames ==
    {w \o e : w \in SingleWords, e \in {".geojson", ".geojsonseq"}}
    \cup {w1 \o "_" \o w2 \o ".geojson" : w1, w2 \in PairWords}
    \cup {"settlement-extents"}

ResolveArgs ==
    {NoArg}
    \cup {StrArg(n) : n \in FileNames}
    \cup {PathArg(DATA_DIR, n) : n \in FileNames}
    \cup {PathArg(OTHER_DIR, n) : n \in {"points.geojson", "buildings.geojsonseq"}}

\* n copies of the value v
Repeat(v, n) == [k \in 1..n |-> v]

\* a Polygon feature after max_samples - 1 or max_samples features that are
\* all Point features or all features without geometry
LongRecords ==
    {Repeat(pad, n) \o <<Feature(GeomTyped("Polygon"))>> :
        pad \in {Feature(GeomAbsent), Feature(GeomTyped("Point"))},
        n \in {max_samples - 1, max_samples}}

\* these records one per line, and as one FeatureCollection document
LongFiles ==
    {TextFile(FALSE, [k \in DOMAIN rs |-> JsonLine(rs[k])]) : rs \in LongRecords}
        \cup {TextFile(p, <<JsonLine(FeatureCollection(rs))>>) :
                  p \in BOOLEAN, rs \in LongRecords}

ClassifyInputs ==
    {[name |-> n, file |-> f] :
        n \in {"a.geojson", "a.geojsonseq"}, f \in FileSet \cup LongFiles}

NoInput == [name |-> "", file |-> NoFile]

\* a float of degrees: units is floor(x * 10^5) and text is repr(x), the text
\* that f"{x}" and json.dump write
UnitsPerDegree == 100000

\* the decimals of a float with at most five of them, without trailing zeros
Decimals(n) ==
    LET digits == SubSeq(ToString(UnitsPerDegree + n), 2, 6)
        kept == {1} \cup {i \in 1..5 : CharAt(digits, i) # "0"}
    IN  SubSeq(digits, 1, CHOOSE i \in kept : \A j \in kept : j <= i)

\* repr of the float that holds units / 10^5 exactly: "20.0", "-79.76259",
\* "1e-05"
DecimalStr(units) ==
    LET a == IF units < 0 THEN -units ELSE units
    IN  (IF units < 0 THEN "-" ELSE "")
            \o (IF 0 < a /\ a < 10 THEN ToString(a) \o "e-05"
                ELSE ToString(a \div UnitsPerDegree) \o "." \o Decimals(a % UnitsPerDegree))

Degrees(units) == [units |-> units, text |-> DecimalStr(units)]

\* line 198: zoom=8
SnapZoom == 8

\* the width of a tile of zoom 8 in units: 360 / 2^8 degrees
TileUnits == (360 * UnitsPerDegree) \div (2 ^ SnapZoom)

LastTile == (2 ^ SnapZoom) - 1

\* mercantile.ul(x, y, 8).lat for y = 0 .. 256, at place y + 1: the latitude
\* of the north edge of row y, degrees(atan(sinh(pi * (1 - 2 * y / 256))))
NorthEdges ==
    <<
       [units |-> 8505112, text |-> "85.0511287798066"],
       [units |-> 8492832, text |-> "84.92832092949963"],
       [units |-> 8480247, text |-> "84.80247372433452"],
       [units |-> 8467351, text |-> "84.67351256610523"],
       [units |-> 8454136, text |-> "84.54136107313408"],
       [units |-> 8440594, text |-> "84.40594104126977"],
       [units |-> 8426717, text |-> "84.26717240431665"],
       [units |-> 8412497, text |-> "84.12497319391095"],
       [units |-> 8397925, text |-> "83.97925949886205"],
       [units |-> 8382994, text |-> "83.8299454239804"],
       [units |-> 8367694, text |-> "83.67694304841552"],
       [units |-> 8352016, text |-> "83.52016238353204"],
       [units |-> 8335951, text |-> "83.35951133035451"],
       [units |-> 8319489, text |-> "83.19489563661588"],
       [units |-> 8302621, text |-> "83.02621885344846"],
       [units |-> 8285338, text |-> "82.8533822917608"],
       [units |-> 8267628, text |-> "82.67628497834903"],
       [units |-> 8249482, text |-> "82.49482361179574"],
       [units |-> 8230889, text |-> "82.30889251821554"],
       [units |-> 8211838, text |-> "82.11838360691269"],
       [units |-> 8192318, text |-> "81.92318632602198"],
       [units |-> 8172318, text |-> "81.72318761821157"],
       [units |-> 8151827, text |-> "81.5182718765338"],
       [units |-> 8130832, text |-> "81.30832090051811"],
       [units |-> 8109321, text |-> "81.09321385260839"],
       [units |-> 8087282, text |-> "80.87282721505684"],
       [units |-> 8064703, text |-> "80.64703474739618"],
       [units |-> 8041570, text |-> "80.4157074446218"],
       [units |-> 8017871, text |-> "80.17871349622823"],
       [units |-> 7993591, text |-> "79.93591824625466"],
       [units |-> 7968718, text |-> "79.68718415450823"],
       [units |-> 7943237, text |-> "79.43237075914709"],
       [units |-> 7917133, text |-> "79.17133464081945"],
       [units |-> 7890392, text |-> "78.9039293885709"],
       [units |-> 7863000, text |-> "78.63000556774836"],
       [units |-> 7834941, text |-> "78.34941069014627"],
       [units |-> 7806198, text |-> "78.06198918665974"],
       [units |-> 7776758, text |-> "77.76758238272801"],
       [units |-> 7746602, text |-> "77.46602847687328"],
       [units |-> 7715716, text |-> "77.157162522661"],
       [units |-> 7684081, text |-> "76.84081641443098"],
       [units |-> 7651681, text |-> "76.51681887717322"],
       [units |-> 7618499, text |-> "76.18499546094715"],
       [units |-> 7584516, text |-> "75.84516854027044"],
       [units |-> 7549715, text |-> "75.49715731893083"],
       [units |-> 7514077, text |-> "75.14077784070429"],
       [units |-> 7477584, text |-> "74.77584300649234"],
       [units |-> 7440216, text |-> "74.4021625984244"],
       [units |-> 7401954, text |-> "74.01954331150226"],
       [units |-> 7362778, text |-> "73.6277887933994"],
       [units |-> 7322669, text |-> "73.22669969306126"],
       [units |-> 7281607, text |-> "72.81607371878991"],
       [units |-> 7239570, text |-> "72.3957057065326"],
       [units |-> 7196538, text |-> "71.96538769913128"],
       [units |-> 7152490, text |-> "71.52490903732816"],
       [units |-> 7107405, text |-> "71.07405646336096"],
       [units |-> 7061261, text |-> "70.61261423801925"],
       [units |-> 7014036, text |-> "70.14036427207168"],
       [units |-> 6965708, text |-> "69.65708627301174"],
       [units |-> 6916255, text |-> "69.162557908105"],
       [units |-> 6865655, text |-> "68.65655498475736"],
       [units |-> 6813885, text |-> "68.13885164925573"],
       [units |-> 6760922, text |-> "67.60922060496382"],
       [units |-> 6706743, text |-> "67.06743335108297"],
       [units |-> 6651326, text |-> "66.51326044311186"],
       [units |-> 6594647, text |-> "65.94647177615738"],
       [units |-> 6536683, text |-> "65.36683689226321"],
       [units |-> 6477412, text |-> "64.77412531292872"],
       [units |-> 6416810, text |-> "64.16810689799152"],
       [units |-> 6354855, text |-> "63.54855223203643"],
       [units |-> 6291523, text |-> "62.91523303947613"],
       [units |-> 6226792, text |-> "62.26792262941758"],
       [units |-> 6160639, text |-> "61.60639637138628"],
       [units |-> 6093043, text |-> "60.930432202923335"],
       [units |-> 6023981, text |-> "60.239811169998916"],
       [units |-> 5953431, text |-> "59.5343180010956"],
       [units |-> 5881374, text |-> "58.81374171570782"],
       [units |-> 5807787, text |-> "58.07787626787517"],
       [units |-> 5732652, text |-> "57.32652122521708"],
       [units |-> 5655948, text |-> "56.55948248376224"],
       [units |-> 5577657, text |-> "55.77657301866769"],
       [units |-> 5497761, text |-> "54.97761367069626"],
       [units |-> 5416243, text |-> "54.1624339680678"],
       [units |-> 5333087, text |-> "53.33087298301705"],
       [units |-> 5248278, text |-> "52.48278022207821"],
       [units |-> 5161801, text |-> "51.6180165487737"],
       [units |-> 5073645, text |-> "50.73645513701065"],
       [units |-> 4983798, text |-> "49.83798245308484"],
       [units |-> 4892249, text |-> "48.92249926375824"],
       [units |-> 4798992, text |-> "47.98992166741417"],
       [units |-> 4704018, text |-> "47.04018214480666"],
       [units |-> 4607323, text |-> "46.07323062540836"],
       [units |-> 4508903, text |-> "45.089035564831015"],
       [units |-> 4408758, text |-> "44.087585028245165"],
       [units |-> 4306888, text |-> "43.06888777416962"],
       [units |-> 4203297, text |-> "42.03297433244139"],
       [units |-> 4097989, text |-> "40.97989806962013"],
       [units |-> 3990973, text |-> "39.90973623453718"],
       [units |-> 3882259, text |-> "38.82259097617711"],
       [units |-> 3771859, text |-> "37.718590325588146"],
       [units |-> 3659788, text |-> "36.59788913307021"],
       [units |-> 3546066, text |-> "35.4606699514953"],
       [units |-> 3430714, text |-> "34.307143856288036"],
       [units |-> 3313755, text |-> "33.137551192346145"],
       [units |-> 3195216, text |-> "31.952162238024968"],
       [units |-> 3075127, text |-> "30.751277776257812"],
       [units |-> 2953522, text |-> "29.535229562948455"],
       [units |-> 2830438, text |-> "28.304380682962773"],
       [units |-> 2705912, text |-> "27.059125784374054"],
       [units |-> 2579989, text |-> "25.79989118208832"],
       [units |-> 2452713, text |-> "24.527134822597805"],
       [units |-> 2324134, text |-> "23.24134610238614"],
       [units |-> 2194304, text |-> "21.943045533438177"],
       [units |-> 2063278, text |-> "20.632784250388017"],
       [units |-> 1931114, text |-> "19.31114335506464"],
       [units |-> 1797873, text |-> "17.97873309555617"],
       [units |-> 1663619, text |-> "16.636191878397657"],
       [units |-> 1528418, text |-> "15.284185114076433"],
       [units |-> 1392340, text |-> "13.923403897723341"],
       [units |-> 1255456, text |-> "12.554563528593658"],
       [units |-> 1117840, text |-> "11.178401873711781"],
       [units |-> 979567, text |-> "9.795677582829734"],
       [units |-> 840716, text |-> "8.407168163601074"],
       [units |-> 701366, text |-> "7.01366792756663"],
       [units |-> 561598, text |-> "5.615985819155334"],
       [units |-> 421494, text |-> "4.214943141390642"],
       [units |-> 281137, text |-> "2.8113711933311296"],
       [units |-> 140610, text |-> "1.4061088354351565"],
       [units |-> 0, text |-> "0.0"],
       [units |-> -140611, text |-> "-1.4061088354351565"],
       [units |-> -281138, text |-> "-2.8113711933311296"],
       [units |-> -421495, text |-> "-4.214943141390642"],
       [units |-> -561599, text |-> "-5.615985819155334"],
       [units |-> -701367, text |-> "-7.01366792756663"],
       [units |-> -840717, text |-> "-8.407168163601074"],
       [units |-> -979568, text |-> "-9.795677582829734"],
       [units |-> -1117841, text |-> "-11.178401873711781"],
       [units |-> -1255457, text |-> "-12.554563528593658"],
       [units |-> -1392341, text |-> "-13.923403897723341"],
       [units |-> -1528419, text |-> "-15.284185114076433"],
       [units |-> -1663620, text |-> "-16.636191878397657"],
       [units |-> -1797874, text |-> "-17.97873309555617"],
       [units |-> -1931115, text |-> "-19.31114335506464"],
       [units |-> -2063279, text |-> "-20.632784250388017"],
       [units |-> -2194305, text |-> "-21.943045533438177"],
       [units |-> -2324135, text |-> "-23.24134610238614"],
       [units |-> -2452714, text |-> "-24.527134822597805"],
       [units |-> -2579990, text |-> "-25.79989118208832"],
       [units |-> -2705913, text |-> "-27.059125784374054"],
       [units |-> -2830439, text |-> "-28.304380682962773"],
       [units |-> -2953523, text |-> "-29.535229562948455"],
       [units |-> -3075128, text |-> "-30.751277776257812"],
       [units |-> -3195217, text |-> "-31.952162238024968"],
       [units |-> -3313756, text |-> "-33.137551192346145"],
       [units |-> -3430715, text |-> "-34.307143856288036"],
       [units |-> -3546067, text |-> "-35.4606699514953"],
       [units |-> -3659789, text |-> "-36.59788913307021"],
       [units |-> -3771860, text |-> "-37.718590325588146"],
       [units |-> -3882260, text |-> "-38.82259097617711"],
       [units |-> -3990974, text |-> "-39.90973623453718"],
       [units |-> -4097990, text |-> "-40.97989806962013"],
       [units |-> -4203298, text |-> "-42.03297433244139"],
       [units |-> -4306889, text |-> "-43.06888777416962"],
       [units |-> -4408759, text |-> "-44.087585028245165"],
       [units |-> -4508904, text |-> "-45.089035564831015"],
       [units |-> -4607324, text |-> "-46.07323062540836"],
       [units |-> -4704019, text |-> "-47.04018214480666"],
       [units |-> -4798993, text |-> "-47.98992166741417"],
       [units |-> -4892250, text |-> "-48.92249926375824"],
       [units |-> -4983799, text |-> "-49.83798245308484"],
       [units |-> -5073646, text |-> "-50.73645513701065"],
       [units |-> -5161802, text |-> "-51.6180165487737"],
       [units |-> -5248279, text |-> "-52.48278022207821"],
       [units |-> -5333088, text |-> "-53.33087298301705"],
       [units |-> -5416244, text |-> "-54.1624339680678"],
       [units |-> -5497762, text |-> "-54.97761367069626"],
       [units |-> -5577658, text |-> "-55.77657301866769"],
       [units |-> -5655949, text |-> "-56.55948248376224"],
       [units |-> -5732653, text |-> "-57.32652122521708"],
       [units |-> -5807788, text |-> "-58.07787626787517"],
       [units |-> -5881375, text |-> "-58.81374171570782"],
       [units |-> -5953432, text |-> "-59.5343180010956"],
       [units |-> -6023982, text |-> "-60.239811169998916"],
       [units |-> -6093044, text |-> "-60.930432202923335"],
       [units |-> -6160640, text |-> "-61.60639637138628"],
       [units |-> -6226793, text |-> "-62.26792262941758"],
       [units |-> -6291524, text |-> "-62.91523303947613"],
       [units |-> -6354856, text |-> "-63.54855223203643"],
       [units |-> -6416811, text |-> "-64.16810689799152"],
       [units |-> -6477413, text |-> "-64.77412531292872"],
       [units |-> -6536684, text |-> "-65.36683689226321"],
       [units |-> -6594648, text |-> "-65.94647177615738"],
       [units |-> -6651327, text |-> "-66.51326044311186"],
       [units |-> -6706744, text |-> "-67.06743335108297"],
       [units |-> -6760923, text |-> "-67.60922060496382"],
       [units |-> -6813886, text |-> "-68.13885164925573"],
       [units |-> -6865656, text |-> "-68.65655498475736"],
       [units |-> -6916256, text |-> "-69.162557908105"],
       [units |-> -6965709, text |-> "-69.65708627301174"],
       [units |-> -7014037, text |-> "-70.14036427207168"],
       [units |-> -7061262, text |-> "-70.61261423801925"],
       [units |-> -7107406, text |-> "-71.07405646336096"],
       [units |-> -7152491, text |-> "-71.52490903732816"],
       [units |-> -7196539, text |-> "-71.96538769913128"],
       [units |-> -7239571, text |-> "-72.3957057065326"],
       [units |-> -7281608, text |-> "-72.81607371878991"],
       [units |-> -7322670, text |-> "-73.22669969306126"],
       [units |-> -7362779, text |-> "-73.6277887933994"],
       [units |-> -7401955, text |-> "-74.01954331150226"],
       [units |-> -7440217, text |-> "-74.4021625984244"],
       [units |-> -7477585, text |-> "-74.77584300649234"],
       [units |-> -7514078, text |-> "-75.14077784070429"],
       [units |-> -7549716, text |-> "-75.49715731893083"],
       [units |-> -7584517, text |-> "-75.84516854027044"],
       [units |-> -7618500, text |-> "-76.18499546094715"],
       [units |-> -7651682, text |-> "-76.51681887717322"],
       [units |-> -7684082, text |-> "-76.84081641443098"],
       [units |-> -7715717, text |-> "-77.157162522661"],
       [units |-> -7746603, text |-> "-77.46602847687328"],
       [units |-> -7776759, text |-> "-77.76758238272801"],
       [units |-> -7806199, text |-> "-78.06198918665974"],
       [units |-> -7834942, text |-> "-78.34941069014627"],
       [units |-> -7863001, text |-> "-78.63000556774836"],
       [units |-> -7890393, text |-> "-78.9039293885709"],
       [units |-> -7917134, text |-> "-79.17133464081945"],
       [units |-> -7943238, text |-> "-79.43237075914709"],
       [units |-> -7968719, text |-> "-79.68718415450823"],
       [units |-> -7993592, text |-> "-79.93591824625466"],
       [units |-> -8017872, text |-> "-80.17871349622823"],
       [units |-> -8041571, text |-> "-80.4157074446218"],
       [units |-> -8064704, text |-> "-80.64703474739618"],
       [units |-> -8087283, text |-> "-80.87282721505684"],
       [units |-> -8109322, text |-> "-81.09321385260839"],
       [units |-> -8130833, text |-> "-81.30832090051811"],
       [units |-> -8151828, text |-> "-81.5182718765338"],
       [units |-> -8172319, text |-> "-81.72318761821157"],
       [units |-> -8192319, text |-> "-81.92318632602198"],
       [units |-> -8211839, text |-> "-82.11838360691269"],
       [units |-> -8230890, text |-> "-82.30889251821554"],
       [units |-> -8249483, text |-> "-82.49482361179574"],
       [units |-> -8267629, text |-> "-82.67628497834903"],
       [units |-> -8285339, text |-> "-82.8533822917608"],
       [units |-> -8302622, text |-> "-83.02621885344846"],
       [units |-> -8319490, text |-> "-83.19489563661588"],
       [units |-> -8335952, text |-> "-83.35951133035451"],
       [units |-> -8352017, text |-> "-83.52016238353204"],
       [units |-> -8367695, text |-> "-83.67694304841552"],
       [units |-> -8382995, text |-> "-83.8299454239804"],
       [units |-> -8397926, text |-> "-83.97925949886205"],
       [units |-> -8412498, text |-> "-84.12497319391095"],
       [units |-> -8426718, text |-> "-84.26717240431665"],
       [units |-> -8440595, text |-> "-84.40594104126977"],
       [units |-> -8454137, text |-> "-84.54136107313408"],
       [units |-> -8467352, text |-> "-84.67351256610523"],
       [units |-> -8480248, text |-> "-84.80247372433452"],
       [units |-> -8492833, text |-> "-84.92832092949963"],
       [units |-> -8505113, text |-> "-85.0511287798066"]
    >>

\* the north edge of row y is at or above the latitude of lat_units
NorthAtLeast(y, lat_units) == NorthEdges[y + 1].units >= lat_units

\* the north edge of row y is above the latitude of lat_units; the equator,
\* the north edge of row 2^8 / 2, is the one edge that units holds exactly
NorthAbove(y, lat_units) ==
    IF NorthEdges[y + 1].text = "0.0" THEN 0 > lat_units
    ELSE NorthEdges[y + 1].units >= lat_units

\* mercantile.tile(lng, lat, 8).x, for lng clamped to -180 and above
TileX(lng_units) ==
    LET x == (lng_units + 180 * UnitsPerDegree) \div TileUnits
    IN  IF lng_units <= -180 * UnitsPerDegree THEN 0
        ELSE IF x > LastTile THEN LastTile ELSE x

\* mercantile.tile(lng, lat, 8).y: the row whose north edge is at or above lat
\* and whose south edge is below it
TileY(lat_units) == Cardinality({y \in 1..LastTile : NorthAtLeast(y, lat_units)})

\* mercantile.tile(e - LL_EPSILON, s + LL_EPSILON, 8): a point on a tile edge
\* belongs to the tile west of it and to the row north of it
TileXBelow(lng_units) == TileX(lng_units - 1)
TileYAbove(lat_units) == Cardinality({y \in 1..LastTile : NorthAbove(y, lat_units)})

\* mercantile.tiles: a box whose west is east of its east is cut at the
\* antimeridian
TileBoxes(w, s, e, n) ==
    IF w > e
    THEN {<<-180 * UnitsPerDegree, s, e, n>>, <<w, s, 180 * UnitsPerDegree, n>>}
    ELSE {<<w, s, e, n>>}

\* list(mercantile.tiles(xmin, ymin, xmax, ymax, 8)): the tiles of columns
\* x0 to x1 and rows y0 to y1 for each box that holds a tile
Tiles(w, s, e, n) ==
    {r \in {[x0 |-> TileX(b[1]), x1 |-> TileXBelow(b[3]),
             y0 |-> TileY(b[4]), y1 |-> TileYAbove(b[2])] : b \in TileBoxes(w, s, e, n)} :
        r.x0 <= r.x1 /\ r.y0 <= r.y1}

Least(S) == CHOOSE i \in S : \A j \in S : i <= j
Greatest(S) == CHOOSE i \in S : \A j \in S : j <= i

\* lines 160-170: the union of the bounds of the tiles
SnappedTo(tiles) ==
    [xmin |-> Degrees(Least({r.x0 : r \in tiles}) * TileUnits - 180 * UnitsPerDegree),
     ymin |-> NorthEdges[Greatest({r.y1 : r \in tiles}) + 2],
     xmax |-> Degrees((Greatest({r.x1 : r \in tiles}) + 1) * TileUnits
                        - 180 * UnitsPerDegree),
     ymax |-> NorthEdges[Least({r.y0 : r \in tiles}) + 1]]

\* lines 154-170, for zoom 8: the extent itself when no tile covers it
SnapOver(box, tiles) == IF tiles = {} THEN box ELSE SnappedTo(tiles)

\* lines 154-170
snap_to_tile_bounds(box) ==
    SnapOver(box, Tiles(box.xmin.units, box.ymin.units, box.xmax.units, box.ymax.units))

\* an extent with corners of at most five decimals, given in units
RawExtent(xmin, ymin, xmax, ymax) ==
    [xmin |-> Degrees(xmin), ymin |-> Degrees(ymin),
     xmax |-> Degrees(xmax), ymax |-> Degrees(ymax)]

\* line 191: raw_extent = (20.0, -7.0, 26.0, -3.0)
raw_extent == RawExtent(20 * UnitsPerDegree, -7 * UnitsPerDegree,
                        26 * UnitsPerDegree, -3 * UnitsPerDegree)

\* lines 198-199: extent_xmin, extent_ymin, extent_xmax, extent_ymax
ConfiguredExtent == snap_to_tile_bounds(raw_extent)

\* lines 171-194: the extents the module lists, each snapped as lines 198-199
\* snap the one in force: New York State, St Lawrence County, Kinshasa,
\* Kasai-Oriental and Mbuji-Mayi
RawExtents ==
    {RawExtent(-7976259, 4049612, -7185621, 4501585),
     RawExtent(-7550000, 4400000, -7450000, 4500000),
     RawExtent(1500000, -450000, 1600000, -350000),
     raw_extent,
     RawExtent(2340000, -620000, 2380000, -580000)}

Extents == {snap_to_tile_bounds(r) : r \in RawExtents}

PlanInputs ==
    {PathArg(DATA_DIR, n) :
        n \in {"roads.geojsonseq", "water.geojson", "points.geojson", "buildings.geojsonseq"}}
PlanDisks == {NoDisk} \cup {[NoDisk EXCEPT ![DATA_DIR] = c] : c \in {PointsFile, MixedFile}}
PlanLayerFiles ==
    { <<>>,
      <<[layer |-> "roads", file |-> PathArg(DATA_DIR, "roads.geojsonseq")]>>,
      <<[layer |-> "places", file |-> PathArg(DATA_DIR, "places.geojson")],
        [layer |-> "placenames", file |-> PathArg(OVERTURE_DATA_DIR, "placenames.geojson")]>> }
ThemeNames ==
    {"base", "settlement-extents", "transportation", "places", "admin", "buildings"}

----------------------------------------------------------------------------
(* Values of the run state *)

\* what a function gave back to its caller
Unset == [kind |-> "unset", items |-> <<>>]
NoneValue == [kind |-> "None", items |-> <<>>]
ListValue(items) == [kind |-> "list", items |-> items]
PathValue(path) == [kind |-> "path", items |-> <<path>>]

\* The file at tilejson_path: whether it exists and the chunks of JSON text it
\* holds, in the order json.dump writes them
NoManifest == [exists |-> FALSE, chunks |-> <<>>]
ManifestFile(chunks) == [exists |-> TRUE, chunks |-> chunks]

\* no file in any of the other directories
NoCustomFiles == [d \in CustomDirs |-> {}]

----------------------------------------------------------------------------
(* process_single_file *)

\* the dictionary process_single_file returns
DictValue(success, message) ==
    [kind |-> "dict", items |-> <<[success |-> success, message |-> message]>>]

\* repr of the elements of a list of strings
RECURSIVE ReprItems(_)
ReprItems(items) ==
    IF Len(items) = 0 THEN ""
    ELSE IF Len(items) = 1 THEN "'" \o items[1] \o "'"
    ELSE "'" \o items[1] \o "', " \o ReprItems(Tail(items))

\* repr of a list of strings
ListRepr(items) == "[" \o ReprItems(items) \o "]"

\* str(e) of the CalledProcessError of a run of args that exited with
\* status 1; the run is made without capture, so e.stderr is None
CalledProcessErrorStr(args) ==
    "Command '" \o ListRepr(args) \o "' returned non-zero exit status 1."

\* line 595
SingleTilePath(input_path) == PathStr(TILE_DIR, Stem(input_path.name) \o ".pmtiles")

\* lines 594-604: the invocation for the file input_path
SingleCall(input_path, d, e, outcome) ==
    [unit |-> "single", lod |-> "", output |-> SingleTilePath(input_path),
     cmd |-> get_tippecanoe_command(input_path, SingleTilePath(input_path), "layer", d, e),
     outcome |-> outcome]

\* lines 606-611: what is returned after the invocation
SingleResult(call) ==
    CASE call.outcome = "ok" -> DictValue(TRUE, "Tiles generated successfully")
      [] call.outcome = "fail" ->
            DictValue(FALSE, "Tippecanoe error: " \o CalledProcessErrorStr(call.cmd))
      [] OTHER ->
            DictValue(FALSE, "Error: [Errno 2] No such file or directory: 'tippecanoe'")

\* lines 591-611: the invocation made, if any, and the dictionary returned
process_single_file(input_path, d, e, outcome) ==
    IF ~d[input_path.dir].exists
    THEN [invocations |-> <<>>,
          returned |-> DictValue(FALSE, "File does not exist: "
                                           \o PathStr(input_path.dir, input_path.name))]
    ELSE [invocations |-> <<SingleCall(input_path, d, e, outcome)>>,
          returned |-> SingleResult(SingleCall(input_path, d, e, outcome))]

----------------------------------------------------------------------------
(* The parts of the state an operation does not use *)

ResolverIdle ==
    /\ layer_name = ""
    /\ filename_or_path = NoArg
    /\ disk = NoDisk
    /\ settings = <<>>
    /\ detect_calls = <<>>

ClassifierIdle ==
    /\ file_path = NoInput
    /\ geometry_type = ""
    /\ geometry_types = {}

PlannerIdle ==
    /\ extent = ConfiguredExtent
    /\ cmd = <<>>

RunIdle ==
    /\ tool_installed = TRUE
    /\ skip = DefaultSkip
    /\ data_dir = {}
    /\ overture_dir = {}
    /\ custom_dirs = NoCustomFiles
    /\ theme_filter = ""
    /\ filter_pattern = ""
    /\ theme_i = 1
    /\ invocations = <<>>
    /\ log = <<>>
    /\ custom_inputs = <<>>
    /\ returned = Unset

OutputIdle ==
    /\ tile_dir = {}
    /\ manifest = NoManifest

MainIdle ==
    /\ command = ""
    /\ steps = <<>>

TraceIdle == plans = <<>> /\ heap = <<>>

----------------------------------------------------------------------------
(* The resolver applied to one (layer name, filename) pair *)

InitResolve ==
    /\ pc = "start"
    /\ layer_name \in LayerNames
    /\ filename_or_path \in ResolveArgs
    /\ disk \in DiskSet
    /\ settings = <<>>
    /\ detect_calls = <<>>
    /\ geometry_type = ""
    /\ escaped = "none"
    /\ file_path = NoInput
    /\ geometry_types = {}
    /\ PlannerIdle
    /\ RunIdle
    /\ OutputIdle
    /\ MainIdle
    /\ TraceIdle

Resolve ==
    /\ pc = "start"
    /\ LET run == ResolveRun(layer_name, filename_or_path, disk)
       IN  /\ settings' = run.settings
           /\ detect_calls' = run.calls
           /\ geometry_type' = run.geometry_type
           /\ escaped' = run.escaped
    /\ pc' = "resolved"
    /\ UNCHANGED <<main_vars, trace_vars, layer_name, filename_or_path, disk, file_path, geometry_types,
                   planner_vars, run_vars, output_vars>>

NextResolve == Resolve

SpecResolve == InitResolve /\ [][NextResolve]_vars

----------------------------------------------------------------------------
(* The classifier applied to one file *)

InitClassify ==
    /\ pc = "start"
    /\ file_path \in ClassifyInputs
    /\ geometry_type = ""
    /\ geometry_types = {}
    /\ escaped = "none"
    /\ ResolverIdle
    /\ PlannerIdle
    /\ RunIdle
    /\ OutputIdle
    /\ MainIdle
    /\ TraceIdle

Classify ==
    /\ pc = "start"
    /\ LET run == DetectRun(file_path)
       IN  /\ geometry_type' = run.result
           /\ geometry_types' = run.sample.types
           /\ escaped' = run.escaped
    /\ pc' = "classified"
    /\ UNCHANGED <<main_vars, trace_vars, file_path, resolver_vars, planner_vars, run_vars, output_vars>>

NextClassify == Classify

SpecClassify == InitClassify /\ [][NextClassify]_vars

----------------------------------------------------------------------------
(* Properties of get_layer_tippecanoe_settings, checked under SpecResolve *)

DeclaredNameSets ==
    << [names |-> {"water"}, template |-> water_settings],
       [names |-> {"settlement-extents", "settlementextents"},
        template |-> settlement_extents_settings],
       [names |-> {"roads"}, template |-> roads_settings],
       [names |-> {"places", "placenames"}, template |-> places_settings],
       [names |-> {"land_use", "land_cover", "land_residential", "infrastructure"},
        template |-> base_polygons_settings] >>

FilenamePatterns ==
    << [keys |-> {"land_use", "land_cover", "land_residential", "infrastructure", "land"},
        template |-> base_polygons_settings],
       [keys |-> {"water"}, template |-> water_settings],
       [keys |-> {"extents", "settlement"}, template |-> settlement_extents_settings],
       [keys |-> {"roads"}, template |-> roads_settings],
       [keys |-> {"places", "placenames"}, template |-> places_settings] >>

NameRecognized ==
    \E i \in DOMAIN DeclaredNameSets : Lower(layer_name) \in DeclaredNameSets[i].names

FilenameGiven == filename_or_path.kind # "none" /\ filename_or_path.name # ""

PatternMatches(i) ==
    \E k \in FilenamePatterns[i].keys : Contains(Lower(filename_or_path.name), k)

BucketSelected ==
    NameRecognized \/ (FilenameGiven /\ \E i \in DOMAIN FilenamePatterns : PatternMatches(i))

\* the file the second argument denotes on disk
FileOnDisk ==
    CASE filename_or_path.kind = "path" -> disk[filename_or_path.dir]
      [] filename_or_path.kind = "str" /\ disk[DATA_DIR].exists -> disk[DATA_DIR]
      [] filename_or_path.kind = "str" -> disk[OVERTURE_DATA_DIR]
      [] OTHER -> NoFile

\* C1: a declared layer name that is, case-insensitively, in one of the fixed
\* name sets gets that bucket's template whatever the filename is.
C1_DeclaredNameWins ==
    pc = "resolved" =>
        \A i \in DOMAIN DeclaredNameSets :
            Lower(layer_name) \in DeclaredNameSets[i].names
                => settings = DeclaredNameSets[i].template

C1_Witness ==
    /\ pc = "resolved"
    /\ layer_name = "roads"
    /\ Contains(filename_or_path.name, "water")
    /\ settings = roads_settings

\* C2: with no name set matched and a filename given, the first pattern that
\* matches in the order land keywords, water, extents/settlement, roads,
\* places/placenames decides the bucket.
C2_FilenamePriority ==
    (pc = "resolved" /\ ~NameRecognized /\ FilenameGiven) =>
        \A i \in DOMAIN FilenamePatterns :
            (PatternMatches(i) /\ \A j \in 1..(i - 1) : ~PatternMatches(j))
                => settings = FilenamePatterns[i].template

C2_Witness ==
    /\ pc = "resolved"
    /\ ~NameRecognized
    /\ Contains(filename_or_path.name, "land_use")
    /\ Contains(filename_or_path.name, "water")
    /\ settings = base_polygons_settings

\* C3: the geometry classifier is called only when neither the declared name
\* nor the filename selected a bucket and the file exists; the result then is
\* the sub-template of the classifier's category, and the Mixed/Unknown
\* sub-template, with no file read, when the file does not exist.
C3_ClassifierOnlyAsFallback ==
    pc = "resolved" =>
        /\ BucketSelected => detect_calls = <<>>
        /\ (~BucketSelected /\ FileOnDisk.exists) =>
              /\ detect_calls = <<FileOnDisk>>
              /\ geometry_type = "Point" => settings = point_settings
              /\ geometry_type = "LineString" => settings = linestring_settings
              /\ geometry_type = "Polygon" => settings = polygon_settings
              /\ geometry_type \in {"Mixed", "Unknown"} => settings = mixed_settings
        /\ (~BucketSelected /\ ~FileOnDisk.exists) =>
              /\ detect_calls = <<>>
              /\ settings = mixed_settings

C3_Witness ==
    /\ pc = "resolved"
    /\ ~BucketSelected
    /\ detect_calls = <<PolygonsFile>>
    /\ geometry_type = "Polygon"
    /\ settings = polygon_settings

\* C4: every combination of declared name and filename yields a non-empty
\* parameter list and no exception; a name that is in no name set, when no
\* filename pattern and no single geometry category selects a template,
\* yields the Mixed/Unknown template.
C4_AlwaysAPlan ==
    pc = "resolved" =>
        /\ escaped = "none"
        /\ Len(settings) > 0
        /\ (~BucketSelected /\ geometry_type \notin {"Point", "LineString", "Polygon"})
              => settings = mixed_settings

C4_Witness ==
    /\ pc = "resolved"
    /\ layer_name = "base-polygons"
    /\ filename_or_path.kind = "none"
    /\ settings = mixed_settings

----------------------------------------------------------------------------
(* Properties of detect_geometry_type, checked under SpecClassify *)

BaseCategory(t) ==
    CASE t = "MultiPoint" -> "Point"
      [] t = "MultiLineString" -> "LineString"
      [] t = "MultiPolygon" -> "Polygon"
      [] OTHER -> t

\* the JSON values the file holds, line by line, and the features of the
\* collections among them
TopValues(file) == {l.v : l \in {x \in Range(file.lines) : x.lk = "json"}}
Records(file) == TopValues(file) \cup UNION {Range(v.features) : v \in TopValues(file)}

HasGeometryType(v) == v.k = "Feature" /\ v.geometry.gk = "object"

\* every record is an object whose geometry is absent, null or an object
WellFormed(file) ==
    /\ file.exists /\ file.readable
    /\ \A v \in Records(file) :
          v.k # "scalar" /\ (v.k = "Feature" => v.geometry.gk # "number")

\* a newline-delimited file of features named .geojsonseq, or one
\* FeatureCollection document named .geojson
CanonicalEncoding(fp) ==
    \/ /\ EndsWith(fp.name, ".geojsonseq")
       /\ ~fp.file.pretty
       /\ \A l \in Range(fp.file.lines) : l.lk = "json" /\ l.v.k = "Feature"
    \/ /\ EndsWith(fp.name, ".geojson")
       /\ Len(fp.file.lines) = 1
       /\ fp.file.lines[1].lk = "json"
       /\ fp.file.lines[1].v.k = "FeatureCollection"

\* the records in the order of the file: the values of the lines, or the
\* features of the one collection
RecordSeq(fp) ==
    IF EndsWith(fp.name, ".geojsonseq")
    THEN [k \in DOMAIN fp.file.lines |-> fp.file.lines[k].v]
    ELSE fp.file.lines[1].v.features

SampledCategories == {BaseCategory(t) : t \in geometry_types}

\* C5: for a readable file, one category among the sampled geometry types
\* (multi-part types counted as their single-part type) is the result, two or
\* more give "Mixed"
C5_SingleCategoryOrMixed ==
    (pc = "classified" /\ file_path.file.exists /\ file_path.file.readable) =>
        /\ \A c \in SampledCategories :
              SampledCategories = {c} => geometry_type = c
        /\ Cardinality(SampledCategories) >= 2 => geometry_type = "Mixed"

\* a MultiPoint feature and a Point feature sampled, then a feature whose
\* geometry is a number: one category, and the result is "Unknown"
C5_Witness ==
    /\ pc = "classified"
    /\ file_path.name = "a.geojsonseq"
    /\ file_path.file.exists /\ file_path.file.readable
    /\ file_path.file.lines = <<JsonLine(Feature(GeomTyped("MultiPoint"))),
                                JsonLine(Feature(GeomTyped("Point"))),
                                JsonLine(Feature(GeomNumber))>>
    /\ geometry_types = {"MultiPoint", "Point"}
    /\ SampledCategories = {"Point"}
    /\ geometry_type = "Unknown"

\* C6: no exception leaves detect_geometry_type, and a file that cannot be
\* opened, is empty, holds no JSON, or holds no feature with a geometry type
\* is classified "Unknown".
CannotOpen(file) == ~file.exists \/ ~file.readable
IsEmpty(file) == \A l \in Range(file.lines) : l.lk = "blank"
NoJson(file) == ~file.pretty /\ \A l \in Range(file.lines) : l.lk # "json"
NoGeometryType(file) == \A v \in Records(file) : ~HasGeometryType(v)

C6_NeverRaises ==
    pc = "classified" =>
        /\ escaped = "none"
        /\ geometry_type # ""
        /\ (\/ CannotOpen(file_path.file)
            \/ IsEmpty(file_path.file)
            \/ NoJson(file_path.file)
            \/ NoGeometryType(file_path.file)) => geometry_type = "Unknown"

C6_Witness ==
    /\ pc = "classified"
    /\ file_path.file = Unreadable
    /\ geometry_type = "Unknown"
    /\ escaped = "none"

----------------------------------------------------------------------------
(* The command planners applied under a configured extent *)

InitPlan ==
    /\ pc = "start"
    /\ extent \in Extents
    /\ cmd = <<>>
    /\ escaped = "none"
    /\ ResolverIdle
    /\ ClassifierIdle
    /\ RunIdle
    /\ OutputIdle
    /\ MainIdle
    /\ TraceIdle

PlanSingle ==
    /\ pc = "start"
    /\ \E name \in {"layer", "roads"}, input \in PlanInputs, d \in PlanDisks :
          /\ layer_name' = name
          /\ filename_or_path' = input
          /\ disk' = d
          /\ cmd' = get_tippecanoe_command(
                        input, PathStr(TILE_DIR, Stem(input.name) \o ".pmtiles"),
                        name, d, extent)
    /\ pc' = "single"
    /\ UNCHANGED <<main_vars, trace_vars, settings, detect_calls, classifier_vars, escaped, extent, run_vars, output_vars>>

PlanBuilding ==
    /\ pc = "start"
    /\ \E lod_type \in Range(LodTypes), input \in PlanInputs :
          /\ layer_name' = "layer"
          /\ filename_or_path' = input
          /\ cmd' = get_building_tippecanoe_command(
                        input,
                        PathStr(TILE_DIR, Stem(input.name)
                                            \o lod_configs(DefaultSkip)[lod_type].suffix
                                            \o ".pmtiles"),
                        "layer", lod_type, lod_configs(DefaultSkip)[lod_type].zoom_range,
                        extent)
    /\ pc' = "building"
    /\ UNCHANGED <<main_vars, trace_vars, disk, settings, detect_calls, classifier_vars, escaped, extent,
                   run_vars, output_vars>>

PlanTheme ==
    /\ pc = "start"
    /\ \E theme_name \in ThemeNames, layer_files \in PlanLayerFiles :
          /\ layer_name' = theme_name
          /\ cmd' = get_theme_tippecanoe_command(
                        theme_name, PathStr(TILE_DIR, theme_name \o ".pmtiles"),
                        layer_files, disk, extent)
    /\ pc' = "theme"
    /\ UNCHANGED <<main_vars, trace_vars, filename_or_path, disk, settings, detect_calls, classifier_vars,
                   escaped, extent, run_vars, output_vars>>

NextPlan == PlanSingle \/ PlanBuilding \/ PlanTheme

SpecPlan == InitPlan /\ [][NextPlan]_vars

RECURSIVE JoinComma(_)
JoinComma(parts) ==
    IF Len(parts) = 0 THEN ""
    ELSE IF Len(parts) = 1 THEN parts[1]
    ELSE parts[1] \o "," \o JoinComma(Tail(parts))

ExtentValues == <<extent.xmin, extent.ymin, extent.xmax, extent.ymax>>

\* C7: every argument vector of the three command planners holds
\* --clip-bounding-box immediately followed by the four extent values
\* xmin,ymin,xmax,ymax joined by commas.
C7_ClipAlwaysApplied ==
    pc \in {"single", "building", "theme"} =>
        /\ \E i \in 1..(Len(cmd) - 1) : cmd[i] = "--clip-bounding-box"
        /\ \A i \in 1..Len(cmd) :
              cmd[i] = "--clip-bounding-box" =>
                  /\ i < Len(cmd)
                  /\ cmd[i + 1] = JoinComma([k \in 1..4 |-> FloatStr(ExtentValues[k])])

C7_Witness ==
    /\ pc = "building"
    /\ extent = ConfiguredExtent
    /\ cmd[8] = "--clip-bounding-box"
    /\ cmd[9] = "19.6875,-7.01366792756663,26.71875,-2.8113711933311296"

----------------------------------------------------------------------------
(* create_building_tiles applied to one building file *)

BuildingInputs ==
    {PathArg(DATA_DIR, "buildings.geojsonseq"),
     PathArg(OVERTURE_DATA_DIR, "cod.buildings.geojsonseq")}
SkipFlags == [Range(LodTypes) -> BOOLEAN]
BuildingExtents ==
    {ConfiguredExtent,
     snap_to_tile_bounds(RawExtent(-7976259, 4049612, -7185621, 4501585))}

InitBuildings ==
    /\ pc = "start"
    /\ filename_or_path \in BuildingInputs
    /\ skip \in SkipFlags
    /\ extent \in BuildingExtents
    /\ tool_installed \in BOOLEAN
    /\ invocations = <<>>
    /\ log = <<>>
    /\ escaped = "none"
    /\ layer_name = ""
    /\ disk = NoDisk
    /\ settings = <<>>
    /\ detect_calls = <<>>
    /\ cmd = <<>>
    /\ data_dir = {}
    /\ overture_dir = {}
    /\ custom_dirs = NoCustomFiles
    /\ theme_filter = ""
    /\ filter_pattern = ""
    /\ theme_i = 1
    /\ custom_inputs = <<>>
    /\ returned = Unset
    /\ ClassifierIdle
    /\ OutputIdle
    /\ MainIdle
    /\ TraceIdle

\* create_building_tiles(input_path, TILE_DIR, input_path.name, skip...), as line 539
\* calls it, for any values of the three skip arguments
CreateBuildingTiles ==
    /\ pc = "start"
    /\ \E outcome_of \in [Range(LodTypes) -> Outcomes(tool_installed)] :
          LET run == create_building_tiles(filename_or_path, TILE_DIR,
                                           filename_or_path.name, skip, extent,
                                           outcome_of)
          IN  /\ invocations' = run.invocations
              /\ log' = run.log
              /\ escaped' = run.escaped
              /\ returned' = IF run.escaped = "none" THEN NoneValue ELSE returned
              /\ tile_dir' = tile_dir \cup OkArchives(run.invocations)
    /\ pc' = "built"
    /\ UNCHANGED <<main_vars, trace_vars, resolver_vars, classifier_vars, planner_vars, tool_installed, skip,
                   data_dir, overture_dir, custom_dirs, theme_filter, filter_pattern, theme_i,
                   custom_inputs, manifest>>

NextBuildings == CreateBuildingTiles

SpecBuildings == InitBuildings /\ [][NextBuildings]_vars

----------------------------------------------------------------------------
(* Properties of create_building_tiles, checked under SpecBuildings *)

EnabledTiers == SelectSeq(LodTypes, LAMBDA lod_type : ~skip[lod_type])

\* the invocation expected of a tier: its output file and its zoom flags
TierInvocation(call, lod_type) ==
    LET window == lod_configs(skip)[lod_type].zoom_range
    IN  /\ call.lod = lod_type
        /\ call.cmd[1] = "tippecanoe"
        /\ call.cmd[2] = "-fo"
        /\ call.cmd[3] = PathStr(TILE_DIR, Stem(filename_or_path.name) \o "_"
                                     \o lod_type \o "_lod.pmtiles")
        /\ call.cmd[4] = "-z" \o ToString(window.max)
        /\ call.cmd[5] = "-Z" \o ToString(window.min)

\* C8: once create_building_tiles has run with the tool installed, the
\* invocations made are exactly one per tier that is not skipped, in the order
\* low, medium, high, each writing <base>_<tier>_lod.pmtiles with the zoom flags
\* of its tier's window; with medium skipped and low and high enabled there are
\* exactly two of them.
C8_OneInvocationPerEnabledTier ==
    (pc = "built" /\ tool_installed) =>
        /\ Len(invocations) = Len(EnabledTiers)
        /\ \A i \in 1..Len(invocations) : TierInvocation(invocations[i], EnabledTiers[i])
        /\ (~skip["low"] /\ skip["medium"] /\ ~skip["high"]) => Len(invocations) = 2

\* the run that breaks C8: low and high enabled, medium skipped, the low tier's
\* invocation exits non-zero and no other invocation follows
C8_Witness ==
    /\ pc = "built"
    /\ tool_installed
    /\ ~skip["low"] /\ skip["medium"] /\ ~skip["high"]
    /\ Len(invocations) = 1
    /\ invocations[1].lod = "low"
    /\ invocations[1].outcome = "fail"

\* C9: the zoom windows of the three tiers are pairwise disjoint: no zoom level
\* lies inside the windows of two different tiers.
C9_ZoomWindowsDisjoint ==
    \A a \in Range(LodTypes), b \in Range(LodTypes) :
        a # b =>
            LET wa == lod_configs(skip)[a].zoom_range
                wb == lod_configs(skip)[b].zoom_range
            IN  ~ \E z \in 0..22 : /\ wa.min <= z /\ z <= wa.max
                                   /\ wb.min <= z /\ z <= wb.max

TierIndex(lod_type) == CHOOSE k \in 1..Len(LodTypes) : LodTypes[k] = lod_type

\* C11: once create_building_tiles has run with the tool installed, every tier
\* that is not skipped and comes after a tier whose invocation exited non-zero
\* has been invoked after it.
C11_FailureDoesNotStopTiers ==
    (pc = "built" /\ tool_installed) =>
        \A i \in 1..Len(invocations) :
            invocations[i].outcome = "fail" =>
                \A k \in (TierIndex(invocations[i].lod) + 1)..Len(LodTypes) :
                    ~skip[LodTypes[k]] =>
                        \E j \in (i + 1)..Len(invocations) :
                            invocations[j].lod = LodTypes[k]

\* the run that breaks C11: all three tiers enabled, the low tier's invocation
\* exits non-zero and neither the medium nor the high tier is invoked
C11_Witness ==
    /\ pc = "built"
    /\ tool_installed
    /\ \A lod_type \in Range(LodTypes) : ~skip[lod_type]
    /\ invocations[1].lod = "low"
    /\ invocations[1].outcome = "fail"
    /\ \A j \in 1..Len(invocations) : invocations[j].lod \notin {"medium", "high"}

----------------------------------------------------------------------------
(* process_to_tiles: the theme loop *)

\* fnmatch.fnmatch(name, pat) on a POSIX system, for patterns of literal
\* characters, * and ?: does name from position i on match pat from position j on
RECURSIVE FnmatchFrom(_, _, _, _)
FnmatchFrom(name, pat, i, j) ==
    IF j > Len(pat) THEN i > Len(name)
    ELSE IF CharAt(pat, j) = "*"
         THEN \E k \in i..(Len(name) + 1) : FnmatchFrom(name, pat, k, j + 1)
         ELSE /\ i <= Len(name)
              /\ CharAt(pat, j) \in {"?", CharAt(name, i)}
              /\ FnmatchFrom(name, pat, i + 1, j + 1)

Fnmatch(name, pat) == FnmatchFrom(name, pat, 1, 1)

\* lines 460-507, in dict order; layers in dict order as (layer, pattern) pairs
themes ==
    << [name |-> "base",
        files |-> <<"land_use.geojsonseq", "land_cover.geojsonseq",
                    "land_residential.geojsonseq", "water.geojsonseq",
                    "infrastructure.geojsonseq">>,
        layers |-> << [layer |-> "land_use", pattern |-> "land_use.geojsonseq"],
                      [layer |-> "land_cover", pattern |-> "land_cover.geojsonseq"],
                      [layer |-> "land_residential",
                       pattern |-> "land_residential.geojsonseq"],
                      [layer |-> "water", pattern |-> "water.geojsonseq"],
                      [layer |-> "infrastructure",
                       pattern |-> "infrastructure.geojsonseq"] >>,
        multi_lod |-> FALSE],
       [name |-> "settlement-extents",
        files |-> <<"*extents*.geojsonseq">>,
        layers |-> << [layer |-> "settlementextents",
                       pattern |-> "*extent*.geojsonseq"] >>,
        multi_lod |-> FALSE],
       [name |-> "transportation",
        files |-> <<"roads.geojsonseq">>,
        layers |-> << [layer |-> "roads", pattern |-> "roads.geojsonseq"] >>,
        multi_lod |-> FALSE],
       [name |-> "places",
        files |-> <<"places.geojson", "placenames.geojson",
                    "GRID3_COD_health_facilities_v5_0.geojson",
                    "GRID3_COD_settlement_names_v5_0.geojson">>,
        layers |-> << [layer |-> "places", pattern |-> "places.geojson"],
                      [layer |-> "placenames", pattern |-> "placenames.geojson"],
                      [layer |-> "health_facilities",
                       pattern |-> "GRID3_COD_health_facilities_v5_0.geojson"],
                      [layer |-> "settlement_names",
                       pattern |-> "GRID3_COD_settlement_names_v5_0.geojson"] >>,
        multi_lod |-> FALSE],
       [name |-> "admin",
        files |-> <<"GRID3_COD_health_areas_v5_0.geojson",
                    "GRID3_COD_health_zones_v5_0.geojson">>,
        layers |-> << [layer |-> "health_areas",
                       pattern |-> "GRID3_COD_health_areas_v5_0.geojson"],
                      [layer |-> "health_zones",
                       pattern |-> "GRID3_COD_health_zones_v5_0.geojson"] >>,
        multi_lod |-> FALSE],
       [name |-> "buildings",
        files |-> <<"buildings.geojsonseq">>,
        layers |-> << [layer |-> "buildings", pattern |-> "buildings.geojsonseq"] >>,
        multi_lod |-> TRUE] >>

\* the orders in which a directory listing can come back
Perms(S) ==
    {p \in [1..Cardinality(S) -> S] :
        \A i \in 1..Cardinality(S), j \in 1..Cardinality(S) : i # j => p[i] # p[j]}

\* line 523: list(data_dir.glob(file_pattern)), in any directory order
Glob(dir, names, file_pattern) ==
    LET matching == {PathArg(dir, n) : n \in {m \in names : Fnmatch(m, file_pattern)}}
    IN  Perms(matching)

\* lines 519-524: theme_files for the patterns from the i-th on
RECURSIVE ThemeFiles(_, _, _, _)
ThemeFiles(files, i, in_data, in_overture) ==
    IF i > Len(files) THEN {<<>>}
    ELSE {a \o b \o rest :
              a \in Glob(DATA_DIR, in_data, files[i]),
              b \in Glob(OVERTURE_DATA_DIR, in_overture, files[i]),
              rest \in ThemeFiles(files, i + 1, in_data, in_overture)}

\* lines 527-528 left out
ApplyFilter_none(theme_files, pattern) == theme_files

\* lines 527-528
ApplyFilter(theme_files, pattern) ==
    IF pattern # ""
    THEN SelectSeq(theme_files, LAMBDA f : Fnmatch(f.name, pattern))
    ELSE theme_files

\* lines 546-551 keeping only the first layer that has a file
LayerFiles_first_only(layers, i, theme_files) ==
    LET with_file ==
            {k \in i..Len(layers) :
                \E j \in 1..Len(theme_files) : Fnmatch(theme_files[j].name, layers[k].pattern)}
        first == CHOOSE k \in with_file : \A m \in with_file : k <= m
    IN  IF with_file = {} THEN <<>>
        ELSE <<[layer |-> layers[first].layer,
                file |-> SelectSeq(theme_files,
                             LAMBDA f : Fnmatch(f.name, layers[first].pattern))[1]]>>

\* lines 546-551: layer_files for the layers from the i-th on
RECURSIVE LayerFiles(_, _, _)
LayerFiles(layers, i, theme_files) ==
    IF i > Len(layers) THEN <<>>
    ELSE LET matching_files ==
                 SelectSeq(theme_files, LAMBDA f : Fnmatch(f.name, layers[i].pattern))
         IN  (IF matching_files # <<>>
              THEN <<[layer |-> layers[i].layer, file |-> matching_files[1]]>>
              ELSE <<>>)
             \o LayerFiles(layers, i + 1, theme_files)

\* lines 543-568: the one invocation of a theme that is not built per tier
ThemeRun(theme, theme_files, e, outcome) ==
    LET theme_tile_path == PathStr(TILE_DIR, theme.name \o ".pmtiles")
        layer_files == LayerFiles(theme.layers, 1, theme_files)
        call == [unit |-> theme.name, lod |-> "", output |-> theme_tile_path,
                 cmd |-> get_theme_tippecanoe_command(theme.name, theme_tile_path,
                                                      layer_files, NoDisk, e),
                 outcome |-> outcome]
    IN  [invocations |-> <<call>>,
         log |-> <<CASE outcome = "ok" ->
                           [kind |-> "success", unit |-> theme.name, lod |-> ""]
                     [] outcome = "fail" ->
                           [kind |-> "error", unit |-> theme.name, lod |-> ""]
                     [] OTHER ->
                           [kind |-> "error", unit |-> "", lod |-> ""]>>,
         escaped |-> "none"]

\* lines 537-539: create_building_tiles for the building files from the i-th on
RECURSIVE BuildingFilesRun(_, _, _, _)
BuildingFilesRun(building_files, i, e, outcome_ofs) ==
    IF i > Len(building_files)
    THEN [invocations |-> <<>>, log |-> <<>>, escaped |-> "none"]
    ELSE LET run == create_building_tiles(building_files[i], TILE_DIR,
                                          building_files[i].name, DefaultSkip, e,
                                          outcome_ofs[i])
             rest == BuildingFilesRun(building_files, i + 1, e, outcome_ofs)
         IN  IF run.escaped # "none"
             THEN run
             ELSE [invocations |-> run.invocations \o rest.invocations,
                   log |-> run.log \o rest.log,
                   escaped |-> rest.escaped]

\* line 535
IsMultiLod(theme, theme_files) ==
    /\ theme.multi_lod
    /\ \E i \in 1..Len(theme_files) : Contains(theme_files[i].name, "building")

\* lines 565-568 with the mistake of leaving the loop when the tool fails
ThemeLoopAfter_break(i, outcome) == IF outcome = "ok" THEN i + 1 ELSE Len(themes) + 1

\* lines 562-568: after the call, whatever its outcome, the loop goes on with
\* the next theme
ThemeLoopAfter(i, outcome) == i + 1

----------------------------------------------------------------------------
(* process_custom_tiles *)

\* what the files of the data directories hold, by name
FileContent(name) ==
    CASE name = "a_extents.geojsonseq" ->
            TextFile(FALSE, <<JsonLine(Feature(GeomTyped("Polygon")))>>)
      [] name = "b_extents.geojsonseq" -> MixedFile
      [] name = "convertForTipp.py" -> TextFile(FALSE, <<Garbage, Blank, Garbage>>)
      [] name = "GRID3_COD_health_areas_v5_0.geojson" -> PolygonsFile
      [] OTHER -> PointsFile

\* the disk as get_layer_tippecanoe_settings sees it for the file f
DiskOf(f) == [dd \in Dirs |-> IF dd = f.dir THEN FileContent(f.name) ELSE NoFile]

\* lines 370-378 for one directory: the path itself when it exists, else any
\* first element of the glob of the input taken as a pattern
FoundIn(dir, names, custom_input) ==
    IF custom_input \in names
    THEN {PathArg(dir, custom_input)}
    ELSE {PathArg(dir, n) : n \in {m \in names : Fnmatch(m, custom_input)}}

\* lines 352-358
custom_data_dirs == <<DATA_DIR, OVERTURE_DATA_DIR, INPUT_DIR, DATA_DIR, UTILITIES_DIR>>

\* the names of the files of every directory a custom input can be in
FilesOf(in_data, in_overture, in_custom) ==
    [d \in {DATA_DIR, OVERTURE_DATA_DIR} \cup CustomDirs |->
        CASE d = DATA_DIR -> in_data
          [] d = OVERTURE_DATA_DIR -> in_overture
          [] OTHER -> in_custom[d]]

\* lines 367-378: the search stops at the first directory that holds the file
\* or a match of the pattern; {} when no directory does
SearchAt(custom_input, files, hits) ==
    IF hits = {} THEN {}
    ELSE FoundIn(custom_data_dirs[Least(hits)], files[custom_data_dirs[Least(hits)]],
                 custom_input)

\* lines 367-378 for a relative input
CustomSearch(custom_input, files) ==
    SearchAt(custom_input, files,
             {k \in 1..Len(custom_data_dirs) :
                 FoundIn(custom_data_dirs[k], files[custom_data_dirs[k]], custom_input) # {}})

\* Path(custom_input).is_absolute() on a POSIX system
IsAbsolute(path) == Len(path) > 0 /\ CharAt(path, 1) = "/"

\* Path(path).parent of a path with a directory part
Dirname(path) == SubSeq(path, 1, Len(path) - Len(Basename(path)) - 1)

\* lines 384-386: an absolute path is taken as it is and has to exist
AbsoluteFound(custom_input, files) ==
    IF Dirname(custom_input) \in DOMAIN files
       /\ Basename(custom_input) \in files[Dirname(custom_input)]
    THEN {PathArg(Dirname(custom_input), Basename(custom_input))}
    ELSE {}

\* lines 364-386: the files the iteration can go on with, {} when it reports
\* the input as not found
CustomFound(custom_input, files) ==
    IF IsAbsolute(custom_input) THEN AbsoluteFound(custom_input, files)
    ELSE CustomSearch(custom_input, files)

\* lines 401-403: base_name[:-12] where the stem ends with '.geojsonseq'
CustomBaseName(name) ==
    IF EndsWith(Stem(name), ".geojsonseq")
    THEN SubSeq(Stem(name), 1, Len(Stem(name)) - 12)
    ELSE Stem(name)

\* lines 363-428: the loop over the custom inputs from the i-th on; found[i] is
\* the file the search gave for the i-th input (NoArg when it gave none) and
\* outcomes[i] the outcome of the tool if it is run for it
\* lines 380-428: what one iteration adds in front of the rest of the loop,
\* for the file custom_path the search gave and the invocation call
CustomIteration(input, custom_path, base_name, tile_path, call, pattern, rest) ==
    IF custom_path = NoArg
    THEN [rest EXCEPT !.log =
             <<[kind |-> "not_found", unit |-> input, lod |-> ""]>> \o @]
    ELSE IF pattern # "" /\ ~Fnmatch(custom_path.name, pattern)
    THEN rest
    ELSE [invocations |-> <<call>> \o rest.invocations,
          log |-> <<[kind |-> IF call.outcome = "ok" THEN "success" ELSE "error",
                     unit |-> IF call.outcome = "notfound" THEN "" ELSE base_name,
                     lod |-> ""]>> \o rest.log,
          processed_files |->
              IF call.outcome = "ok"
              THEN <<[name |-> base_name, path |-> tile_path, layer |-> "layer",
                      source |-> PathStr(custom_path.dir, custom_path.name)]>>
                   \o rest.processed_files
              ELSE rest.processed_files]

\* lines 401-410 and 415: the invocation for the file custom_path
CustomCall(custom_path, tile_path, outcome, e) ==
    [unit |-> "custom", lod |-> "", output |-> tile_path,
     cmd |-> get_tippecanoe_command(custom_path, tile_path, "layer",
                                    DiskOf(custom_path), e),
     outcome |-> outcome]

\* line 405
CustomTilePath(base_name) == PathStr(TILE_DIR, base_name \o ".pmtiles")

\* lines 363-428: the loop over the custom inputs from the i-th on; found[i] is
\* the file the search gave for the i-th input (NoArg when it gave none) and
\* outcomes[i] the outcome of the tool if it is run for it
RECURSIVE CustomLoop(_, _, _, _, _, _)
CustomLoop(inputs, i, found, outcomes, pattern, e) ==
    IF i > Len(inputs)
    THEN [invocations |-> <<>>, log |-> <<>>, processed_files |-> <<>>]
    ELSE CustomIteration(inputs[i], found[i], CustomBaseName(found[i].name),
                         CustomTilePath(CustomBaseName(found[i].name)),
                         CustomCall(found[i], CustomTilePath(CustomBaseName(found[i].name)),
                                    outcomes[i], e),
                         pattern,
                         CustomLoop(inputs, i + 1, found, outcomes, pattern, e))

\* lines 339-438
process_custom_tiles(inputs, found, outcomes, pattern, e) ==
    CustomLoop(inputs, 1, found, outcomes, pattern, e)

\* lines 380-382: what the iteration goes on with: a file found, or nothing
FoundOrNot(custom_input, files) ==
    IF CustomFound(custom_input, files) = {} THEN {NoArg}
    ELSE CustomFound(custom_input, files)

\* the files the search can give for each input
Searches(inputs, files) ==
    {found \in [1..Len(inputs) ->
                   UNION {FoundOrNot(inputs[i], files) : i \in 1..Len(inputs)}] :
        \A i \in 1..Len(inputs) : found[i] \in FoundOrNot(inputs[i], files)}

----------------------------------------------------------------------------
(* process_to_tiles run over the two data directories *)

MaxDirFiles == 2

FileUniverse ==
    {"land_use.geojsonseq", "water.geojsonseq", "a_extents.geojsonseq",
     "b_extents.geojsonseq", "roads.geojsonseq", "places.geojson",
     "GRID3_COD_health_areas_v5_0.geojson", "buildings.geojsonseq"}
DataListings == {S \in SUBSET FileUniverse : Cardinality(S) <= MaxDirFiles}
OvertureListings == {{}, {"places.geojson", "buildings.geojsonseq"}}
\* the other directories: empty, or with a file for each kind of custom input
CustomListings ==
    {NoCustomFiles,
     [d \in CustomDirs |->
         CASE d = INPUT_DIR -> {"settlements.geojson"}
           [] d = UTILITIES_DIR -> {"convertForTipp.py", "c_extents.geojsonseq"}
           [] OTHER -> {"wells.geojson"}]}
ThemeFilters == {"", "transportation", "buildings"}
FilterPatterns == {"", "*.geojsonseq", "b*"}
\* the arguments of the runs: no filter or one filter without custom inputs,
\* and custom inputs with no, one and two filters
RunArgs ==
    {args \in [custom_inputs : {<<>>}, theme_filter : ThemeFilters,
               filter_pattern : FilterPatterns] :
        args.theme_filter = "" \/ args.filter_pattern = ""}
    \cup {[custom_inputs |-> <<"buildings.geojsonseq">>, theme_filter |-> "",
           filter_pattern |-> ""],
          [custom_inputs |-> <<"*extents*", "settlements.geojson">>,
           theme_filter |-> "transportation", filter_pattern |-> ""],
          [custom_inputs |-> <<"roads.geojsonseq", "places.geojson">>,
           theme_filter |-> "buildings", filter_pattern |-> "*.geojsonseq"],
          [custom_inputs |-> <<"/srv/custom/wells.geojson", "convertForTipp.py">>,
           theme_filter |-> "places", filter_pattern |-> ""]}

InitTiles ==
    /\ pc = "start"
    /\ data_dir \in DataListings
    /\ overture_dir \in OvertureListings
    /\ \E args \in RunArgs :
          /\ custom_inputs = args.custom_inputs
          /\ theme_filter = args.theme_filter
          /\ filter_pattern = args.filter_pattern
    /\ custom_dirs \in (IF custom_inputs = <<>> THEN {NoCustomFiles} ELSE CustomListings)
    /\ tool_installed \in BOOLEAN
    /\ theme_i = 1
    /\ invocations = <<>>
    /\ log = <<>>
    /\ returned = Unset
    /\ escaped = "none"
    /\ skip = DefaultSkip
    /\ ResolverIdle
    /\ ClassifierIdle
    /\ PlannerIdle
    /\ OutputIdle
    /\ MainIdle
    /\ TraceIdle

\* lines 448-457: process_to_tiles up to the theme loop, with the call of
\* process_custom_tiles when custom_inputs is given
ProcessCustomTiles ==
    /\ pc = "start"
    /\ IF custom_inputs # <<>>
       THEN \E found \in Searches(custom_inputs, FilesOf(data_dir, overture_dir, custom_dirs)),
               outcomes \in [1..Len(custom_inputs) -> Outcomes(tool_installed)] :
              LET run == process_custom_tiles(custom_inputs, found, outcomes,
                                              filter_pattern, extent)
              IN  /\ invocations' = invocations \o run.invocations
                  /\ log' = log \o run.log
                  /\ returned' = ListValue(run.processed_files)
                  /\ tile_dir' = tile_dir \cup OkArchives(run.invocations)
       ELSE UNCHANGED <<invocations, log, returned, tile_dir>>
    /\ pc' = "loop"
    /\ UNCHANGED <<main_vars, trace_vars, escaped, resolver_vars, classifier_vars, planner_vars, tool_installed,
                   skip, data_dir, overture_dir, custom_dirs, theme_filter, filter_pattern, theme_i,
                   custom_inputs, manifest>>

\* lines 510-568: one iteration of the loop over the themes
ProcessTheme ==
    /\ pc = "loop"
    /\ theme_i <= Len(themes)
    /\ LET theme == themes[theme_i]
       IN  IF theme_filter # "" /\ theme.name # theme_filter
           THEN /\ theme_i' = theme_i + 1
                /\ UNCHANGED <<pc, invocations, log, escaped, tile_dir>>
           ELSE \E found \in ThemeFiles(theme.files, 1, data_dir, overture_dir) :
                  LET theme_files == ApplyFilter(found, filter_pattern)
                      building_files ==
                          SelectSeq(theme_files, LAMBDA f : Contains(f.name, "building"))
                  IN  IF theme_files = <<>>
                      THEN /\ theme_i' = theme_i + 1
                           /\ UNCHANGED <<pc, invocations, log, escaped, tile_dir>>
                      ELSE IF IsMultiLod(theme, theme_files)
                      THEN \E outcome_ofs \in
                                  [1..Len(building_files) ->
                                      [Range(LodTypes) -> Outcomes(tool_installed)]] :
                             LET run == BuildingFilesRun(building_files, 1, extent,
                                                         outcome_ofs)
                             IN  /\ invocations' = invocations \o run.invocations
                                 /\ log' = log \o run.log
                                 /\ escaped' = run.escaped
                                 /\ tile_dir' = tile_dir \cup OkArchives(run.invocations)
                                 /\ IF run.escaped # "none"
                                    THEN pc' = "raised" /\ theme_i' = theme_i
                                    ELSE pc' = pc /\ theme_i' = theme_i + 1
                      ELSE \E outcome \in Outcomes(tool_installed) :
                             LET run == ThemeRun(theme, theme_files, extent, outcome)
                             IN  /\ invocations' = invocations \o run.invocations
                                 /\ log' = log \o run.log
                                 /\ theme_i' = ThemeLoopAfter(theme_i, outcome)
                                 /\ tile_dir' = tile_dir \cup OkArchives(run.invocations)
                                 /\ UNCHANGED <<pc, escaped>>
    /\ UNCHANGED <<main_vars, trace_vars, resolver_vars, classifier_vars, planner_vars, tool_installed, skip,
                   data_dir, overture_dir, custom_dirs, theme_filter, filter_pattern, custom_inputs,
                   returned, manifest>>

\* line 510: themes.items() has no further theme
LoopOver == theme_i > Len(themes)

\* line 570: the loop is over and process_to_tiles returns
Finish ==
    /\ pc = "loop"
    /\ LoopOver
    /\ pc' = "done"
    /\ returned' = NoneValue
    /\ UNCHANGED <<main_vars, trace_vars, escaped, resolver_vars, classifier_vars, planner_vars, tool_installed,
                   skip, data_dir, overture_dir, custom_dirs, theme_filter, filter_pattern, theme_i,
                   invocations, log, custom_inputs, output_vars>>

NextTiles == ProcessCustomTiles \/ ProcessTheme \/ Finish

SpecTiles == InitTiles /\ [][NextTiles]_vars

----------------------------------------------------------------------------
(* Properties of process_to_tiles, checked under SpecTiles *)

Selected(theme) == theme_filter = "" \/ theme.name = theme_filter

HasInputFiles(theme) ==
    \E k \in 1..Len(theme.files), n \in data_dir \cup overture_dir :
        /\ Fnmatch(n, theme.files[k])
        /\ filter_pattern # "" => Fnmatch(n, filter_pattern)

InvocationsOf(unit) == SelectSeq(invocations, LAMBDA call : call.unit = unit)

FailureRecorded(unit) ==
    \E k \in 1..Len(log) : log[k].kind = "error" /\ log[k].unit = unit

\* what the claim asks of one theme: one invocation, its failure recorded
OneInvocation(theme) ==
    /\ Len(InvocationsOf(theme.name)) = 1
    /\ InvocationsOf(theme.name)[1].outcome = "fail" => FailureRecorded(theme.name)

\* C10 as stated: when process_to_tiles has returned, every selected theme that
\* has input files has had exactly one invocation, whose non-zero exit is
\* recorded as that theme's failure, whatever the invocations before it did.
C10_OneInvocationPerTheme ==
    pc = "done" =>
        \A i \in 1..Len(themes) :
            (Selected(themes[i]) /\ HasInputFiles(themes[i])) => OneInvocation(themes[i])

\* the themes the loop has been through, the one an exception ended it in
\* included
Passed(i) == i < theme_i \/ (i = theme_i /\ pc = "raised")

\* C10: at every point of the loop over the themes, of the selected themes
\* that have input files, each one the loop has been through other than the
\* multi-LOD buildings theme has had exactly one invocation, whose non-zero
\* exit is recorded as that theme's failure, whatever the invocations before
\* it did; the buildings theme, once the loop has been through it, has had at
\* least one invocation; a theme the loop has not come to has had none.
C10_OneInvocationPerSingleTheme ==
    pc \in {"loop", "done", "raised"} =>
        \A i \in 1..Len(themes) :
            (Selected(themes[i]) /\ HasInputFiles(themes[i])) =>
                /\ (Passed(i) /\ ~themes[i].multi_lod) => OneInvocation(themes[i])
                /\ (Passed(i) /\ themes[i].multi_lod) =>
                      Len(InvocationsOf(themes[i].name)) >= 1
                /\ ~Passed(i) => Len(InvocationsOf(themes[i].name)) = 0

\* a finished run in which the invocation of theme base exited non-zero, was
\* recorded and made once, the invocation of theme transportation came after
\* it, and the buildings theme had two invocations
C10_Witness ==
    /\ pc = "done"
    /\ \E i \in 1..Len(invocations), j \in 1..Len(invocations) :
          /\ i < j
          /\ invocations[i].unit = "base"
          /\ invocations[i].outcome = "fail"
          /\ invocations[j].unit = "transportation"
    /\ FailureRecorded("base")
    /\ Len(InvocationsOf("base")) = 1
    /\ Len(InvocationsOf("transportation")) = 1
    /\ Len(InvocationsOf("buildings")) = 2

\* C12: no invocation is made after one that could not locate the tool, while
\* with the tool installed every selected theme that has input files is invoked
\* whatever exit status the invocations before it had.
C12_ToolNotFoundStopsRun ==
    /\ \A i \in 1..Len(invocations), j \in 1..Len(invocations) :
          i < j => invocations[i].outcome # "notfound"
    /\ (pc = "done" /\ tool_installed) =>
          \A i \in 1..Len(themes) :
              (Selected(themes[i]) /\ HasInputFiles(themes[i]))
                  => InvocationsOf(themes[i].name) # <<>>

\* the run that breaks C12: the tool is missing, the base theme's invocation
\* cannot start it and the transportation theme is invoked all the same
C12_Witness ==
    /\ ~tool_installed
    /\ \E i \in 1..Len(invocations), j \in 1..Len(invocations) :
          /\ i < j
          /\ invocations[i].unit = "base"
          /\ invocations[i].outcome = "notfound"
          /\ invocations[j].unit = "transportation"
          /\ invocations[j].outcome = "notfound"

\* one entry per invocation made, in order, each with the output path of its unit
OneEntryPerUnit(value, calls) ==
    /\ value.kind = "list"
    /\ Len(value.items) = Len(calls)
    /\ \A i \in 1..Len(calls) : value.items[i].path = calls[i].output

Failed(calls) == {i \in 1..Len(calls) : calls[i].outcome # "ok"}

\* C13: what a build run returns is a list with one entry per unit invoked,
\* failed units included: process_custom_tiles when it has returned to
\* process_to_tiles, and process_to_tiles when it has returned.
C13_AggregateResultList ==
    /\ (pc = "loop" /\ theme_i = 1 /\ custom_inputs # <<>>)
          => OneEntryPerUnit(returned, invocations)
    /\ pc = "done" => OneEntryPerUnit(returned, invocations)

\* the run that breaks C13: three units of which exactly one failed, and
\* process_to_tiles returns None
C13_Witness ==
    /\ pc = "done"
    /\ Len(invocations) = 3
    /\ Cardinality(Failed(invocations)) = 1
    /\ returned = NoneValue

\* the input files of a theme that pass the filter, and those of one sub-layer
InputPaths ==
    {PathArg(DATA_DIR, n) : n \in data_dir}
        \cup {PathArg(OVERTURE_DATA_DIR, n) : n \in overture_dir}
ThemeInputs(theme) ==
    {f \in InputPaths :
        /\ \E k \in 1..Len(theme.files) : Fnmatch(f.name, theme.files[k])
        /\ filter_pattern # "" => Fnmatch(f.name, filter_pattern)}
LayerInputs(theme, layer) == {f \in ThemeInputs(theme) : Fnmatch(f.name, layer.pattern)}

\* the positions of the sub-layer declarations of an argument vector
LayerFlags(args) == {k \in 1..(Len(args) - 1) : args[k] \in {"--named-layer", "-L"}}

\* the declaration at position k names this sub-layer and one of its files,
\* with the flag that goes with the file's suffix
Declares(args, k, theme, layer) ==
    \E f \in LayerInputs(theme, layer) :
        /\ args[k + 1] = layer.layer \o ":" \o PathStr(f.dir, f.name)
        /\ args[k] = IF EndsWith(f.name, ".geojsonseq") THEN "--named-layer" ELSE "-L"

\* C14: when process_to_tiles has returned or raised, a theme that is built as
\* one multi-layer archive has been invoked at most once, and exactly once when
\* it is selected and has input files; the argument vector of that invocation holds
\* exactly one sub-layer declaration 'name:file' for each sub-layer that has an
\* input file and none for any other, and no element of it is an input file by
\* itself.
C14_OneInvocationDeclaresAllLayers ==
    \A t \in 1..Len(themes) :
        (pc \in {"done", "raised"} /\ ~themes[t].multi_lod) =>
            LET theme == themes[t]
                calls == InvocationsOf(theme.name)
            IN  /\ Len(calls) <= 1
                /\ (Selected(theme) /\ ThemeInputs(theme) # {}) => Len(calls) = 1
                /\ \A i \in 1..Len(calls) :
                      LET args == calls[i].cmd
                      IN  /\ \A l \in 1..Len(theme.layers) :
                                Cardinality({k \in LayerFlags(args) :
                                                Declares(args, k, theme, theme.layers[l])})
                                    = IF LayerInputs(theme, theme.layers[l]) # {}
                                      THEN 1 ELSE 0
                          /\ \A k \in LayerFlags(args) :
                                \E l \in 1..Len(theme.layers) :
                                    Declares(args, k, theme, theme.layers[l])
                          /\ \A k \in 1..Len(args), f \in InputPaths :
                                args[k] # PathStr(f.dir, f.name)

C14_Witness ==
    /\ pc = "done"
    /\ data_dir = {"land_use.geojsonseq", "water.geojsonseq"}
    /\ Len(InvocationsOf("base")) = 1
    /\ Len(invocations) = 1
    /\ Cardinality(LayerFlags(invocations[1].cmd)) = 2

\* the file f is an input of the invocation: an element of its argument vector
\* is the path of f or a sub-layer declaration of it
IsInputOf(f, call) ==
    \E k \in 1..Len(call.cmd) :
        \/ call.cmd[k] = PathStr(f.dir, f.name)
        \/ EndsWith(call.cmd[k], ":" \o PathStr(f.dir, f.name))

\* C15: when process_to_tiles has returned or raised, every invocation that has
\* a building file (a file with 'building' in its name) as input is one of the
\* LOD tiers' invocations made by create_building_tiles.
C15_BuildingsThroughLodPlanner ==
    pc \in {"done", "raised"} =>
        \A i \in 1..Len(invocations), f \in InputPaths :
            (Contains(f.name, "building") /\ IsInputOf(f, invocations[i]))
                => /\ invocations[i].unit = "buildings"
                   /\ invocations[i].lod \in Range(LodTypes)

\* the run that breaks C15: the building file given as custom input goes
\* through get_tippecanoe_command
C15_Witness ==
    /\ pc = "done"
    /\ custom_inputs = <<"buildings.geojsonseq">>
    /\ Len(invocations) >= 1
    /\ invocations[1].unit = "custom"
    /\ invocations[1].output = "processing/tiles/buildings.pmtiles"
    /\ invocations[1].cmd[4] = "-zg"
    /\ IsInputOf(PathArg(DATA_DIR, "buildings.geojsonseq"), invocations[1])

ThemeNamesOf == {themes[t].name : t \in 1..Len(themes)}

\* C16: when process_to_tiles has returned or raised, with a theme_filter no
\* invocation has been made for a theme other than the named one, and with a
\* filter_pattern no file whose name fails the pattern is an input of any
\* invocation, be it a theme's, a building tier's or a custom input's.
C16_FiltersBeforeInvocation ==
    pc \in {"done", "raised"} =>
        /\ theme_filter # "" =>
              \A i \in 1..Len(invocations) :
                  invocations[i].unit \in ThemeNamesOf => invocations[i].unit = theme_filter
        /\ filter_pattern # "" =>
              \A i \in 1..Len(invocations), f \in InputPaths :
                  IsInputOf(f, invocations[i]) => Fnmatch(f.name, filter_pattern)

C16_Witness ==
    /\ pc = "done"
    /\ theme_filter = "buildings"
    /\ filter_pattern = "*.geojsonseq"
    /\ custom_inputs = <<"roads.geojsonseq", "places.geojson">>
    /\ data_dir = {"roads.geojsonseq", "places.geojson"}
    /\ overture_dir = {"places.geojson", "buildings.geojsonseq"}
    /\ Len(invocations) = 3
    /\ invocations[1].unit = "custom"
    /\ invocations[2].lod = "low"
    /\ invocations[3].lod = "medium"

----------------------------------------------------------------------------
(* create_tilejson *)

\* the characters of the file names, in the order of their code points
AsciiOrder == "-.0123456789ABCDEFGHIJKLMNOPQRSTUVWXYZ_abcdefghijklmnopqrstuvwxyz"
Ord == [c \in {CharAt(AsciiOrder, i) : i \in 1..Len(AsciiOrder)} |->
           CHOOSE i \in 1..Len(AsciiOrder) : CharAt(AsciiOrder, i) = c]

\* Python: a < b on str, from position i on
RECURSIVE StrLessFrom(_, _, _)
StrLessFrom(a, b, i) ==
    IF i > Len(b) THEN FALSE
    ELSE IF i > Len(a) THEN TRUE
    ELSE IF CharAt(a, i) = CharAt(b, i) THEN StrLessFrom(a, b, i + 1)
    ELSE Ord[CharAt(a, i)] < Ord[CharAt(b, i)]

\* the order of two paths of one directory is the order of their names
StrLess(a, b) == StrLessFrom(a, b, 1)

\* the archives from the greatest name down
RECURSIVE Sorted_descending(_)
Sorted_descending(S) ==
    IF S = {} THEN <<>>
    ELSE LET last == CHOOSE x \in S : \A y \in S \ {x} : StrLess(y, x)
         IN  <<last>> \o Sorted_descending(S \ {last})

\* line 1086: sorted(available_tiles)
RECURSIVE Sorted(_)
Sorted(S) ==
    IF S = {} THEN <<>>
    ELSE LET first == CHOOSE x \in S : \A y \in S \ {x} : StrLess(x, y)
         IN  <<first>> \o Sorted(S \ {first})

\* line 1031: TILE_DIR.glob("*.pmtiles")
available_tiles(listing) == {n \in listing : Fnmatch(n, "*.pmtiles")}

\* a layer descriptor; fields is the dict as a sequence of (key, type) pairs
Descriptor(id, description, fields) ==
    [id |-> id, description |-> description, fields |-> fields]
SubtypeClass == << <<"subtype", "String">>, <<"class", "String">> >>
NameTypeId == << <<"name", "String">>, <<"type", "String">>, <<"id", "String">> >>
BuildingFields ==
    << <<"name", "String">>, <<"height", "Number">>, <<"level", "Number">> >>

\* lines 1034-1083
core_tiles ==
    [tile_name \in {"base.pmtiles", "settlement-extents.pmtiles", "transportation.pmtiles",
                    "places.pmtiles", "admin.pmtiles", "buildings_low_lod.pmtiles",
                    "buildings_medium_lod.pmtiles", "buildings_high_lod.pmtiles"} |->
        CASE tile_name = "base.pmtiles" ->
                << Descriptor("land_use", "Land use polygons", SubtypeClass),
                   Descriptor("land_residential", "Residential areas", SubtypeClass),
                   Descriptor("water", "Water bodies", SubtypeClass),
                   Descriptor("infrastructure", "Infrastructure", SubtypeClass) >>
          [] tile_name = "settlement-extents.pmtiles" ->
                << Descriptor("settlementextents", "Settlement boundary extents",
                              NameTypeId) >>
          [] tile_name = "transportation.pmtiles" ->
                << Descriptor("roads", "Road network",
                              << <<"class", "String">>, <<"subclass", "String">> >>) >>
          [] tile_name = "places.pmtiles" ->
                << Descriptor("places", "Points of interest",
                              << <<"category", "String">>, <<"confidence", "Number">> >>),
                   Descriptor("placenames", "Place names",
                              << <<"subtype", "String">>,
                                 <<"locality_type", "String">> >>),
                   Descriptor("health_facilities", "Health facilities", NameTypeId),
                   Descriptor("settlement_names", "Settlement names", NameTypeId) >>
          [] tile_name = "admin.pmtiles" ->
                << Descriptor("health_areas", "Health administrative areas", NameTypeId),
                   Descriptor("health_zones", "Health administrative zones", NameTypeId) >>
          [] tile_name = "buildings_low_lod.pmtiles" ->
                << Descriptor("buildings", "Buildings (Low LOD)", BuildingFields) >>
          [] tile_name = "buildings_medium_lod.pmtiles" ->
                << Descriptor("buildings", "Buildings (Medium LOD)", BuildingFields) >>
          [] tile_name = "buildings_high_lod.pmtiles" ->
                << Descriptor("buildings", "Buildings (High LOD)", BuildingFields) >>]

\* lines 1096-1101
custom_layer(tile_stem) ==
    Descriptor("layer", "Custom layer: " \o tile_stem,
               << <<"id", "String">>, <<"name", "String">> >>)

\* lines 1092-1102 adding nothing for an archive that is not in core_tiles
LayersFor_core_only(tile_name) ==
    IF tile_name \in DOMAIN core_tiles THEN core_tiles[tile_name] ELSE <<>>

\* lines 1092-1102: what one archive adds to vector_layers
LayersFor(tile_name) ==
    IF tile_name \in DOMAIN core_tiles
    THEN core_tiles[tile_name]
    ELSE <<custom_layer(Stem(tile_name))>>

\* line 1088
TileUrl(tile_name) == "pmtiles://tiles/" \o tile_name

\* lines 1086-1103: vector_layers after the loop over the sorted archives
RECURSIVE VectorLayers(_)
VectorLayers(sorted_tiles) ==
    IF sorted_tiles = <<>> THEN <<>>
    ELSE LayersFor(Head(sorted_tiles)) \o VectorLayers(Tail(sorted_tiles))

\* lines 1020-1103: the dict tilejson when the loop is over
Tilejson(listing, e) ==
    LET sorted_tiles == Sorted(available_tiles(listing))
    IN  [tilejson |-> "3.0.0",
         name |-> "Basemap prototype",
         minzoom |-> 0,
         maxzoom |-> 14,
         bounds |-> <<e.xmin, e.ymin, e.xmax, e.ymax>>,
         tiles |-> [k \in 1..Len(sorted_tiles) |-> TileUrl(sorted_tiles[k])],
         vector_layers |-> VectorLayers(sorted_tiles)]

\* line 1108: json.dump(tilejson, f, indent=2) writes the members in the order
\* of the dict, one after the other
Dump(doc) ==
    << <<"tilejson", doc.tilejson>>, <<"name", doc.name>>, <<"minzoom", doc.minzoom>>,
       <<"maxzoom", doc.maxzoom>>, <<"bounds", doc.bounds>>, <<"tiles", doc.tiles>>,
       <<"vector_layers", doc.vector_layers>> >>

\* lines 1107-1108: open(tilejson_path, 'w') fails and leaves the file as it
\* was, or it empties the file and json.dump then writes all the members, or
\* the write fails with only the first `written` members in the file
WriteOutcomes(chunks) ==
    {[kind |-> "ok", written |-> Len(chunks)], [kind |-> "open_fails", written |-> 0]}
        \cup {[kind |-> "write_fails", written |-> k] : k \in 0..(Len(chunks) - 1)}

\* lines 1106-1108: the file after the write
Written(file, chunks, outcome) ==
    IF outcome.kind = "open_fails" THEN file
    ELSE ManifestFile(SubSeq(chunks, 1, outcome.written))

\* lines 1016-1114: the file, the value returned and the exception raised
create_tilejson(listing, e, file, outcome) ==
    [manifest |-> Written(file, Dump(Tilejson(listing, e)), outcome),
     returned |-> PathValue(PathStr(TILE_DIR, "tilejson.json")),
     escaped |-> IF outcome.kind = "ok" THEN "none" ELSE "OSError"]

----------------------------------------------------------------------------
(* The tiles command: process_to_tiles, then create_tilejson; and            *)
(* create_tilejson by itself on the directory as it is                       *)

MaxArchives == 2

ArchiveUniverse ==
    {"transportation.pmtiles", "roads.pmtiles", "Settlements.pmtiles",
     "buildings_low_lod.pmtiles", "base.pmtiles", "notes.txt"}
ArchiveListings == {S \in SUBSET ArchiveUniverse : Cardinality(S) <= MaxArchives}
ManifestData ==
    {{}, {"roads.geojsonseq"}, {"a_extents.geojsonseq"},
     {"roads.geojsonseq", "buildings.geojsonseq"}}
\* the document an earlier run wrote
PriorManifest == ManifestFile(Dump(Tilejson({"base.pmtiles"}, ConfiguredExtent)))

InitManifest ==
    /\ pc = "start"
    /\ data_dir \in ManifestData
    /\ overture_dir = {}
    /\ custom_dirs = NoCustomFiles
    /\ custom_inputs \in {<<>>, <<"a_extents.geojsonseq">>}
    /\ theme_filter = ""
    /\ filter_pattern = ""
    /\ tool_installed \in BOOLEAN
    /\ tile_dir \in ArchiveListings
    /\ manifest \in {NoManifest, PriorManifest}
    /\ theme_i = 1
    /\ invocations = <<>>
    /\ log = <<>>
    /\ returned = Unset
    /\ escaped = "none"
    /\ skip = DefaultSkip
    /\ ResolverIdle
    /\ ClassifierIdle
    /\ PlannerIdle
    /\ MainIdle
    /\ TraceIdle

\* the archives the invocations of the run wrote, instead of the directory
ScanTileDir_of_run == OkArchives(invocations)

\* line 1031: the files create_tilejson finds in TILE_DIR when it is called
ScanTileDir == tile_dir

\* lines 1016-1114, called after process_to_tiles has returned (lines 1266-1267),
\* a second time on the directory as the first call left it, or by itself
CreateTilejson ==
    /\ pc \in {"start", "done", "assembled"}
    /\ \E outcome \in WriteOutcomes(Dump(Tilejson(ScanTileDir, extent))) :
          LET run == create_tilejson(ScanTileDir, extent, manifest, outcome)
          IN  /\ manifest' = run.manifest
              /\ escaped' = run.escaped
              /\ IF run.escaped = "none"
                 THEN /\ returned' = run.returned
                      /\ pc' = IF pc = "assembled" THEN "reassembled" ELSE "assembled"
                 ELSE /\ returned' = returned
                      /\ pc' = "write_failed"
    /\ steps' = Append(steps, [call |-> "create_tilejson", after |-> Len(invocations)])
    /\ UNCHANGED <<command, trace_vars, resolver_vars, classifier_vars, planner_vars, tool_installed, skip,
                   data_dir, overture_dir, custom_dirs, theme_filter, filter_pattern, theme_i,
                   invocations, log, custom_inputs, tile_dir>>

NextManifest == ProcessCustomTiles \/ ProcessTheme \/ Finish \/ CreateTilejson

SpecManifest == InitManifest /\ [][NextManifest]_vars

----------------------------------------------------------------------------
(* Properties of the manifest under SpecManifest *)

\* create_tilejson has returned: the document is in the file
Assembled == pc \in {"assembled", "reassembled"}

\* the value of a member of the document in the file
Member(key) ==
    manifest.chunks[CHOOSE k \in 1..Len(manifest.chunks) : manifest.chunks[k][1] = key][2]

\* the archives of the output directory
Archives == {n \in tile_dir : EndsWith(n, ".pmtiles")}

\* how many times the descriptor d is in vector_layers
Occurrences(d) ==
    Cardinality({k \in 1..Len(Member("vector_layers")) : Member("vector_layers")[k] = d})

\* the generic descriptors of vector_layers that name the archive a
GenericFor(a) ==
    {k \in 1..Len(Member("vector_layers")) :
        LET d == Member("vector_layers")[k]
        IN  /\ d.id = "layer"
            /\ d.description = "Custom layer: " \o Stem(a)
            /\ {f[1] : f \in Range(d.fields)} = {"id", "name"}
            /\ Len(d.fields) = 2}

\* the descriptors that the archives of S are due
RECURSIVE DescriptorsDue(_)
DescriptorsDue(S) ==
    IF S = {} THEN 0
    ELSE LET a == CHOOSE x \in S : TRUE
         IN  (IF a \in DOMAIN core_tiles THEN Len(core_tiles[a]) ELSE 1)
                 + DescriptorsDue(S \ {a})

\* C17: in the document create_tilejson wrote, every recognized archive of the
\* output directory has exactly the layer descriptors of its table entry, every
\* other archive has exactly one generic descriptor (id 'layer', fields id and
\* name), and vector_layers holds nothing else
C17_DescriptorsPerArchive ==
    Assembled =>
        /\ \A a \in Archives :
              IF a \in DOMAIN core_tiles
              THEN \A d \in Range(core_tiles[a]) : Occurrences(d) = 1
              ELSE Cardinality(GenericFor(a)) = 1
        /\ Len(Member("vector_layers")) = DescriptorsDue(Archives)

\* the recognized roads archive and one unrecognized archive: two entries, the
\* roads schema and a generic one
C17_Witness ==
    /\ Assembled
    /\ \E a \in Archives :
          /\ a \notin DOMAIN core_tiles
          /\ Archives = {"transportation.pmtiles", a}
          /\ Len(Member("vector_layers")) = 2
          /\ \E k \in 1..2 :
                /\ Member("vector_layers")[k].id = "roads"
                /\ Member("vector_layers")[k].fields
                       = << <<"class", "String">>, <<"subclass", "String">> >>
                /\ Member("vector_layers")[3 - k].id = "layer"

\* the name of the archive a URI of 'tiles' stands for
ArchiveOf(url) == SubSeq(url, Len("pmtiles://tiles/") + 1, Len(url))

\* the descriptors that the archive a put into vector_layers
OwnDescriptors(a) ==
    IF a \in DOMAIN core_tiles THEN Range(core_tiles[a])
    ELSE {Member("vector_layers")[k] : k \in GenericFor(a)}

\* the places of vector_layers that hold a descriptor of the archive a
PlacesOf(a) ==
    {k \in 1..Len(Member("vector_layers")) :
        Member("vector_layers")[k] \in OwnDescriptors(a)}

\* C18: in the document create_tilejson wrote, 'tiles' holds exactly one URI
\* per archive of the output directory, in ascending order of the paths, and
\* the descriptors of an earlier archive all precede those of a later one
C18_TilesAndLayersInSortedOrder ==
    Assembled =>
        LET tiles == Member("tiles")
        IN  /\ Len(tiles) = Cardinality(Archives)
            /\ {ArchiveOf(tiles[k]) : k \in 1..Len(tiles)} = Archives
            /\ \A k \in 1..Len(tiles) :
                  SubSeq(tiles[k], 1, Len("pmtiles://tiles/")) = "pmtiles://tiles/"
            /\ \A j, k \in 1..Len(tiles) :
                  j < k =>
                      /\ StrLess(ArchiveOf(tiles[j]), ArchiveOf(tiles[k]))
                      /\ \A m \in PlacesOf(ArchiveOf(tiles[j])),
                            n \in PlacesOf(ArchiveOf(tiles[k])) : m < n

\* two archives, the one with the capital letter first, each with descriptors
C18_Witness ==
    /\ Assembled
    /\ Archives = {"base.pmtiles", "Settlements.pmtiles"}
    /\ Member("tiles")
           = <<"pmtiles://tiles/Settlements.pmtiles", "pmtiles://tiles/base.pmtiles">>
    /\ PlacesOf("Settlements.pmtiles") = {1}
    /\ PlacesOf("base.pmtiles") = 2..5

\* the archives the document lists
Listed == {ArchiveOf(Member("tiles")[k]) : k \in 1..Len(Member("tiles"))}

\* the outputs of the invocations of this run that did not exit with 0
FailedOutputs ==
    {Basename(invocations[i].output) :
        i \in {j \in 1..Len(invocations) : invocations[j].outcome # "ok"}}

\* C19: the document lists the archives that are in the output directory and
\* no other, whatever was built before and whichever invocations succeeded,
\* and create_tilejson run again on the unchanged directory writes the same
\* document
C19_ManifestFromDirectoryAlone ==
    /\ [](Assembled => Listed = Archives)
    /\ [][(pc = "assembled" /\ pc' = "reassembled")
              => (tile_dir' = tile_dir /\ manifest' = manifest)]_vars

\* after a second run: an archive no invocation of this run wrote is listed,
\* and the output of a failed invocation is neither on disk nor listed
C19_Witness ==
    /\ pc = "reassembled"
    /\ \E a \in Archives : a \notin OkArchives(invocations) /\ a \in Listed
    /\ \E a \in FailedOutputs : a \notin tile_dir /\ a \notin Listed

\* the members of a complete document
DocumentKeys ==
    {"tilejson", "name", "minzoom", "maxzoom", "bounds", "tiles", "vector_layers"}

\* the file at the manifest path holds a whole document
CompleteDocument ==
    /\ manifest.exists
    /\ {manifest.chunks[k][1] : k \in 1..Len(manifest.chunks)} = DocumentKeys

\* C20: when create_tilejson fails while writing, the failure reaches the
\* caller and the manifest path holds a complete document, the prior one or
\* the new one, or no file if there was none; never an empty or partly
\* written one
C20_WriteAllOrNothing ==
    pc = "write_failed" =>
        /\ escaped = "OSError"
        /\ (manifest = NoManifest \/ CompleteDocument)

\* the write failed after the file was opened: the file is there without all
\* the members of the document
C20_Witness ==
    /\ pc = "write_failed"
    /\ escaped = "OSError"
    /\ manifest.exists
    /\ Len(manifest.chunks) < Cardinality(DocumentKeys)

----------------------------------------------------------------------------
(* The commands 'tiles' and 'all' of __main__ *)

\* files a download can leave in the two data directories
DownloadedData == {{}, {"roads.geojsonseq"}}
DownloadedOverture == {{}, {"buildings.geojsonseq"}}

CommandData == {{}, {"roads.geojsonseq"}, {"a_extents.geojsonseq", "land_use.geojsonseq"}}
CommandOverture == {{}, {"buildings.geojsonseq"}}

\* line 1261: the command, with what the two data directories and TILE_DIR hold
InitCommand ==
    /\ command \in {"tiles", "all"}
    /\ pc = IF command = "all" THEN "main" ELSE "start"
    /\ steps = <<>>
    /\ TraceIdle
    /\ data_dir \in CommandData
    /\ overture_dir \in CommandOverture
    /\ custom_dirs = NoCustomFiles
    /\ custom_inputs \in {<<>>, <<"a_extents.geojsonseq">>}
    /\ theme_filter = ""
    /\ filter_pattern = ""
    /\ tool_installed \in BOOLEAN
    /\ tile_dir \in {{}, {"base.pmtiles"}}
    /\ manifest = NoManifest
    /\ theme_i = 1
    /\ invocations = <<>>
    /\ log = <<>>
    /\ returned = Unset
    /\ escaped = "none"
    /\ skip = DefaultSkip
    /\ ResolverIdle
    /\ ClassifierIdle
    /\ PlannerIdle

\* lines 1268-1269 and 215-337: download_source_data raises (the template
\* cannot be read, the database cannot be opened) or returns; a query that
\* fails is printed (lines 323-325) and its file is not written
Download ==
    /\ pc = "main"
    /\ command = "all"
    /\ steps' = Append(steps, [call |-> "download_source_data", after |-> Len(invocations)])
    /\ \/ /\ pc' = "download_failed"
          /\ escaped' = "Exception"
          /\ UNCHANGED <<data_dir, overture_dir, returned>>
       \/ \E got_data \in DownloadedData, got_overture \in DownloadedOverture :
             /\ data_dir' = data_dir \cup got_data
             /\ overture_dir' = overture_dir \cup got_overture
             /\ returned' = NoneValue
             /\ pc' = "start"
             /\ UNCHANGED escaped
    /\ UNCHANGED <<command, trace_vars, resolver_vars, classifier_vars, planner_vars, tool_installed,
                   skip, custom_dirs, theme_filter, filter_pattern, theme_i, invocations,
                   log, custom_inputs, output_vars>>

\* lines 1266 and 1270: create_tilejson called when process_to_tiles has returned
AssembleManifest == pc = "done" /\ CreateTilejson

NextCommand == Download \/ ProcessCustomTiles \/ ProcessTheme \/ Finish \/ AssembleManifest

SpecCommand == InitCommand /\ [][NextCommand]_vars

\* the calls of create_tilejson made
ManifestCalls == {k \in 1..Len(steps) : steps[k].call = "create_tilejson"}

\* the build of the command has ended: by the return of create_tilejson or by
\* an exception that left process_to_tiles
Ended == pc \in {"assembled", "write_failed", "raised"}

\* C21: whenever the build of a 'tiles' or 'all' command has ended,
\* create_tilejson was called exactly once, after the last invocation of the
\* run, whatever the outcome of the invocations; for 'all' the download is the
\* first call, before any invocation
C21_ManifestOncePerRun ==
    /\ Ended =>
          /\ Cardinality(ManifestCalls) = 1
          /\ \A k \in ManifestCalls : steps[k].after = Len(invocations)
    /\ (command = "all" /\ invocations # <<>>) =>
          /\ Len(steps) >= 1
          /\ steps[1] = [call |-> "download_source_data", after |-> 0]

\* a 'tiles' run without the tool: the invocation of an earlier theme could not
\* find it and the loop went on, the invocation for a building file could not
\* find it and FileNotFoundError left process_to_tiles; no manifest is made
C21_Witness ==
    /\ pc = "raised"
    /\ command = "tiles"
    /\ ~tool_installed
    /\ escaped = "FileNotFoundError"
    /\ Len(invocations) >= 2
    /\ \A i \in 1..Len(invocations) : invocations[i].outcome = "notfound"
    /\ invocations[1].unit # "buildings"
    /\ invocations[Len(invocations)].unit = "buildings"
    /\ ManifestCalls = {}
    /\ steps = <<>>
    /\ ~ENABLED NextCommand

----------------------------------------------------------------------------
(* Output paths and input discovery under SpecTiles *)

\* C22: the invocations of one run write pairwise distinct output archive
\* paths
C22_DistinctOutputPaths ==
    \A i, j \in 1..Len(invocations) :
        i # j => invocations[i].output # invocations[j].output

\* a finished run in which two invocations for different inputs both exited
\* with 0 and wrote the same archive path
C22_Witness ==
    /\ pc = "done"
    /\ \E i, j \in 1..Len(invocations) :
          /\ i < j
          /\ invocations[i].output = invocations[j].output
          /\ invocations[i].cmd # invocations[j].cmd
          /\ invocations[i].outcome = "ok"
          /\ invocations[j].outcome = "ok"

\* the lists theme_files that discovery can give for a theme on the two
\* directories as they are
Candidates(theme) == ThemeFiles(theme.files, 1, data_dir, overture_dir)

\* the bindings of sub-layers to files that can come of them
Bindings(theme) ==
    {LayerFiles(theme.layers, 1, ApplyFilter(found, filter_pattern)) :
        found \in Candidates(theme)}

\* C23: for the directories as they are, discovery has one result: one ordered
\* list of candidate files per theme, one file bound to each sub-layer, and
\* one file found for each custom input
C23_DiscoveryDeterministic ==
    /\ \A k \in 1..Len(themes) :
          /\ Cardinality(Candidates(themes[k])) = 1
          /\ Cardinality(Bindings(themes[k])) = 1
    /\ Cardinality(Searches(custom_inputs, FilesOf(data_dir, overture_dir, custom_dirs))) = 1

\* a finished run that bound the sub-layer settlementextents to b_extents
\* where another enumeration of the same directory binds it to a_extents
C23_Witness ==
    /\ pc = "done"
    /\ {"a_extents.geojsonseq", "b_extents.geojsonseq"} \subseteq data_dir
    /\ \E i \in 1..Len(invocations) :
          /\ invocations[i].unit = "settlement-extents"
          /\ IsInputOf(PathArg(DATA_DIR, "b_extents.geojsonseq"), invocations[i])
          /\ ~IsInputOf(PathArg(DATA_DIR, "a_extents.geojsonseq"), invocations[i])
    /\ \E binding \in Bindings(themes[2]) :
          binding[1].file = PathArg(DATA_DIR, "a_extents.geojsonseq")

----------------------------------------------------------------------------
(* Records without a usable geometry, the sample cap and the encodings,     *)
(* under SpecClassify                                                       *)

\* one JSON value per line in a file named .geojsonseq, or one
\* FeatureCollection document in a file named .geojson
RecordFile(fp) ==
    /\ fp.file.exists /\ fp.file.readable
    /\ \/ /\ EndsWith(fp.name, ".geojsonseq")
          /\ ~fp.file.pretty
          /\ \A l \in Range(fp.file.lines) : l.lk = "json" /\ l.v.k # "FeatureCollection"
       \/ /\ EndsWith(fp.name, ".geojson")
          /\ Len(fp.file.lines) = 1
          /\ fp.file.lines[1].lk = "json"
          /\ fp.file.lines[1].v.k = "FeatureCollection"

\* the categories of the records that carry a geometry type
ValidCategories(file) ==
    {BaseCategory(v.geometry.type) : v \in {r \in Records(file) : HasGeometryType(r)}}

\* the result for the file with every other record removed
ResultOfValid(file) ==
    IF Cardinality(ValidCategories(file)) = 1
    THEN CHOOSE c \in ValidCategories(file) : TRUE
    ELSE IF ValidCategories(file) = {} THEN "Unknown" ELSE "Mixed"

\* C24: the result for a file of at most max_samples records is the result for the same file with
\* the records removed that carry no geometry type (geometry absent, null,
\* without type, not an object; a line that is no feature object); such a
\* record never makes the result "Unknown" while others carry a geometry type
C24_BadRecordsSkipped ==
    (pc = "classified" /\ RecordFile(file_path)
        /\ Cardinality(DOMAIN RecordSeq(file_path)) <= max_samples) =>
        geometry_type = ResultOfValid(file_path.file)

\* a Point feature followed by a feature whose geometry is a number:
\* the result is "Unknown"
C24_Witness ==
    /\ pc = "classified"
    /\ file_path.name = "a.geojsonseq"
    /\ file_path.file.lines = <<JsonLine(Feature(GeomTyped("Point"))),
                                JsonLine(Feature(GeomNumber))>>
    /\ ResultOfValid(file_path.file) = "Point"
    /\ geometry_type = "Unknown"

\* the places of the first max_samples records that carry a geometry type
FirstWithGeometry(fp) ==
    LET valid == {k \in DOMAIN RecordSeq(fp) : HasGeometryType(RecordSeq(fp)[k])}
    IN  {k \in valid : Cardinality({j \in valid : j < k}) < max_samples}

\* the result that the categories of a set of records give
ResultOfCategories(cats) ==
    IF Cardinality(cats) = 1 THEN CHOOSE c \in cats : TRUE
    ELSE IF cats = {} THEN "Unknown" ELSE "Mixed"

\* C25: in both encodings the result is the one given by the first
\* max_samples features that carry a geometry type; a feature without
\* geometry does not count as a sample and no later feature has any influence
C25_FirstHundredWithGeometry ==
    (pc = "classified" /\ CanonicalEncoding(file_path) /\ WellFormed(file_path.file)) =>
        geometry_type =
            ResultOfCategories({BaseCategory(RecordSeq(file_path)[k].geometry.type) :
                                   k \in FirstWithGeometry(file_path)})

\* a FeatureCollection of max_samples features without geometry and then a
\* Polygon feature: the result is "Unknown"
C25_Witness ==
    /\ pc = "classified"
    /\ file_path.name = "a.geojson"
    /\ CanonicalEncoding(file_path)
    /\ RecordSeq(file_path)
           = Repeat(Feature(GeomAbsent), max_samples) \o <<Feature(GeomTyped("Polygon"))>>
    /\ FirstWithGeometry(file_path) = {max_samples + 1}
    /\ geometry_type = "Unknown"

\* a sequence of at most max_samples well-formed features, stored one per
\* line or as the features of one FeatureCollection document
FeatureSequence(file) ==
    /\ WellFormed(file)
    /\ \/ /\ ~file.pretty
          /\ Len(file.lines) \in 1..max_samples
          /\ \A l \in Range(file.lines) : l.lk = "json" /\ l.v.k = "Feature"
       \/ /\ Len(file.lines) = 1
          /\ file.lines[1].lk = "json"
          /\ file.lines[1].v.k = "FeatureCollection"
          /\ Len(file.lines[1].v.features) <= max_samples

\* C26: the category of a sequence of features is that of its features that
\* carry a geometry type, whether they are stored as one FeatureCollection
\* document or one per line, and whether the file is named .geojson or
\* .geojsonseq
C26_EncodingFromContent ==
    (pc = "classified" /\ FeatureSequence(file_path.file)) =>
        geometry_type = ResultOfValid(file_path.file)

\* a FeatureCollection document with one Point feature, named .geojsonseq:
\* the result is "Unknown"
C26_Witness ==
    /\ pc = "classified"
    /\ file_path.name = "a.geojsonseq"
    /\ file_path.file.lines
           = <<JsonLine(FeatureCollection(<<Feature(GeomTyped("Point"))>>))>>
    /\ ResultOfValid(file_path.file) = "Point"
    /\ geometry_type = "Unknown"

----------------------------------------------------------------------------
(* The argument vector of a single-file unit, checked under SpecPlan *)

InputArgument == PathStr(filename_or_path.dir, filename_or_path.name)
InputPositions == {i \in 1..Len(cmd) : cmd[i] = InputArgument}

\* C27: the argument vector get_tippecanoe_command returns holds, in this
\* order, the output path flag, the zoom flag, the layer-name flag, the
\* clip-bounding-box flag, the plan's parameter flags, and the input path as
\* its final element, after every plan parameter.
C27_InputPathLast ==
    pc = "single" =>
        /\ cmd[2] = "-fo"
        /\ cmd[3] = PathStr(TILE_DIR, Stem(filename_or_path.name) \o ".pmtiles")
        /\ cmd[4] = "-zg"
        /\ cmd[5] = "-l"
        /\ cmd[6] = layer_name
        /\ cmd[8] = "--clip-bounding-box"
        /\ cmd[9] = ClipBoundingBox(extent)
        /\ InputPositions = {Len(cmd)}

\* a vector whose input path is followed by the layer's parameters
C27_Witness ==
    /\ pc = "single"
    /\ layer_name = "roads"
    /\ InputPositions = {19}
    /\ Len(cmd) > 19
    /\ cmd[18] = "-P"
    /\ cmd[20] = "--no-line-simplification"

----------------------------------------------------------------------------
(* Planner calls repeated on one interpreter, between rewrites of the input *)

MaxPlans == 3        \* planner calls in one behaviour

ReplanNames == {"layer", "roads"}
ReplanInputs == {PathArg(DATA_DIR, "points.geojson")}

\* a FeatureCollection document spread over several lines, with a feature
\* without coordinates, a feature without a geometry and a polygon
UncleanFile ==
    TextFile(TRUE, <<JsonLine(FeatureCollection(<<Feature(GeomEmpty("Point")),
                                                    Feature(GeomNull),
                                                    Feature(GeomTyped("Polygon"))>>))>>)
\* a FeatureCollection document on one line whose second feature has a number
\* for its geometry
BrokenFile ==
    TextFile(FALSE, <<JsonLine(FeatureCollection(<<Feature(GeomTyped("Point")),
                                                     Feature(GeomNumber)>>))>>)
ReplanDisks ==
    PlanDisks \cup {[NoDisk EXCEPT ![DATA_DIR] = c] : c \in {UncleanFile, BrokenFile}}
ValidateInputs == ReplanInputs \cup {PathArg(DATA_DIR, "points.geojsonseq")}
\* the theme get_theme_tippecanoe_command is called for, and its layer files
ReplanThemes == {"transportation"}
ReplanLayerFiles == <<[layer |-> "roads", file |-> PathArg(DATA_DIR, "roads.geojsonseq")]>>

InitReplan ==
    /\ pc = "start"
    /\ extent \in {ConfiguredExtent}
    /\ disk \in ReplanDisks
    /\ tool_installed \in BOOLEAN
    /\ cmd = <<>>
    /\ settings = <<>>
    /\ layer_name = ""
    /\ filename_or_path = NoArg
    /\ detect_calls = <<>>
    /\ escaped = "none"
    /\ plans = <<>>
    /\ heap = <<>>
    /\ invocations = <<>>
    /\ returned = Unset
    /\ skip = DefaultSkip
    /\ data_dir = {}
    /\ overture_dir = {}
    /\ custom_dirs = NoCustomFiles
    /\ theme_filter = ""
    /\ filter_pattern = ""
    /\ theme_i = 1
    /\ log = <<>>
    /\ custom_inputs = <<>>
    /\ ClassifierIdle
    /\ OutputIdle
    /\ MainIdle

\* A list display evaluates to a new list object each time it is evaluated:
\* the object takes the next place of the heap
NewList(h, items) == [heap |-> Append(h, items), ref |-> Len(h) + 1]

\* list.extend: the object r itself takes the items at its end
Extended(h, r, items) == [heap |-> [h EXCEPT ![r] = @ \o items], ref |-> r]

\* a + b of two lists: a new object, a and b as they were
Concatenated(h, a, b) == NewList(h, h[a] \o h[b])

\* lines 789-940: settings is bound to the list display of the branch taken
\* and returned; the function binds no other name and no module-level one
SettingsList(h, name, arg, d) == NewList(h, get_layer_tippecanoe_settings(name, arg, d))

\* base_cmd bound once and kept between the calls, line 971 as
\* base_cmd.extend(layer_settings) and return base_cmd
CommandList_extending(h, input_path, tile_path, name, d, e) ==
    LET earlier == {k \in DOMAIN plans : plans[k].symbol = "get_tippecanoe_command"}
        base_cmd == IF earlier = {}
                    THEN NewList(h, CommandBase(input_path, tile_path, name, e))
                    ELSE [heap |-> h, ref |-> plans[CHOOSE k \in earlier : TRUE].ref]
        layer_settings == SettingsList(base_cmd.heap, name, input_path, d)
    IN  Extended(layer_settings.heap, base_cmd.ref,
                 layer_settings.heap[layer_settings.ref])

\* lines 942-971: base_cmd is a list display (line 945), layer_settings the
\* list get_layer_tippecanoe_settings returns (line 968), and the list
\* returned is base_cmd + layer_settings (line 971)
CommandList(h, input_path, tile_path, name, d, e) ==
    LET base_cmd == NewList(h, CommandBase(input_path, tile_path, name, e))
        layer_settings == SettingsList(base_cmd.heap, name, input_path, d)
    IN  Concatenated(layer_settings.heap, base_cmd.ref, layer_settings.ref)

\* lines 1229 and 1241: the arguments of the call of
\* get_layer_tippecanoe_settings for a theme
ThemeLayer(theme_name) ==
    IF theme_name = "settlement-extents" THEN "settlement-extents"
    ELSE primary_layer(theme_name)
ThemeArg(theme_name) ==
    IF theme_name = "settlement-extents" THEN StrArg("settlement-extents") ELSE NoArg

\* lines 1209-1245: base_cmd is a list display (line 1211), extended in place
\* by the arguments of the layer files (lines 1224 and 1226) and by the list
\* get_layer_tippecanoe_settings returns (lines 1230 and 1242), and returned;
\* settings is the object that call returned, 0 when the call is not made
ThemeList(h, theme_name, theme_tile_path, layer_files, d, e) ==
    LET base_cmd == NewList(h, ThemeBase(theme_tile_path, e))
        with_layers == Extended(base_cmd.heap, base_cmd.ref, LayerArgs(layer_files))
        layer_settings == SettingsList(with_layers.heap, ThemeLayer(theme_name),
                                       ThemeArg(theme_name), d)
    IN  IF ThemeLayer(theme_name) = ""
        THEN [heap |-> with_layers.heap, ref |-> base_cmd.ref, settings |-> 0]
        ELSE [heap |-> Extended(layer_settings.heap, base_cmd.ref,
                                layer_settings.heap[layer_settings.ref]).heap,
              ref |-> base_cmd.ref,
              settings |-> layer_settings.ref]

\* the arguments and surroundings of a planner call, the list object it
\* returned and the items of that object at the return
PlanCall(symbol, name, input, tile_path, ref, result) ==
    [symbol |-> symbol, layer_name |-> name, input_path |-> input,
     tile_path |-> tile_path, extent |-> extent, files |-> disk,
     ref |-> ref, result |-> result]

\* get_tippecanoe_command called with the module's extent and the files as
\* they are
Replan ==
    /\ Len(plans) < MaxPlans
    /\ \E name \in ReplanNames, input \in ReplanInputs :
          \E made \in {CommandList(heap, input, SingleTilePath(input), name, disk,
                                   extent)} :
              /\ layer_name' = name
              /\ filename_or_path' = input
              /\ heap' = made.heap
              /\ cmd' = made.heap[made.ref]
              /\ plans' = Append(plans, PlanCall("get_tippecanoe_command", name, input,
                                                 SingleTilePath(input), made.ref,
                                                 made.heap[made.ref]))
    /\ pc' = "single"
    /\ UNCHANGED <<main_vars, disk, settings, detect_calls, classifier_vars, escaped,
                   extent, run_vars, output_vars>>

\* get_layer_tippecanoe_settings called with the files as they are
Resettle ==
    /\ Len(plans) < MaxPlans
    /\ \E name \in ReplanNames, input \in ReplanInputs :
          \E made \in {SettingsList(heap, name, input, disk)} :
              /\ layer_name' = name
              /\ filename_or_path' = input
              /\ heap' = made.heap
              /\ settings' = made.heap[made.ref]
              /\ plans' = Append(plans, PlanCall("get_layer_tippecanoe_settings", name,
                                                 input, "", made.ref,
                                                 made.heap[made.ref]))
    /\ pc' = "resolved"
    /\ UNCHANGED <<main_vars, disk, cmd, detect_calls, classifier_vars, escaped,
                   extent, run_vars, output_vars>>

\* get_theme_tippecanoe_command called for a theme that has a primary layer:
\* the call of get_layer_tippecanoe_settings it makes, and base_cmd extended
\* in place by the list that call returned
Retheme ==
    /\ Len(plans) < MaxPlans
    /\ \E theme_name \in ReplanThemes :
          \E made \in {ThemeList(heap, theme_name,
                                 PathStr(TILE_DIR, theme_name \o ".pmtiles"),
                                 ReplanLayerFiles, disk, extent)} :
              /\ layer_name' = ThemeLayer(theme_name)
              /\ filename_or_path' = ThemeArg(theme_name)
              /\ heap' = made.heap
              /\ cmd' = made.heap[made.ref]
              /\ settings' = made.heap[made.settings]
              /\ plans' = Append(plans, PlanCall("get_layer_tippecanoe_settings",
                                                 ThemeLayer(theme_name),
                                                 ThemeArg(theme_name), "",
                                                 made.settings,
                                                 made.heap[made.settings]))
    /\ pc' = "themed"
    /\ UNCHANGED <<main_vars, disk, detect_calls, classifier_vars, escaped,
                   extent, run_vars, output_vars>>

\* lines 572-589: a call of validate_geojson, which rewrites the file in place
ValidateGeojson ==
    /\ Len(plans) < MaxPlans
    /\ \E input \in ValidateInputs :
          /\ disk' = [disk EXCEPT ![input.dir] =
                          validate_geojson([name |-> input.name, file |-> @]).file]
          /\ escaped' = validate_geojson([name |-> input.name,
                                          file |-> disk[input.dir]]).exc
    /\ pc' = "validated"
    /\ UNCHANGED <<main_vars, trace_vars, layer_name, filename_or_path, settings,
                   cmd, detect_calls, classifier_vars, extent, run_vars, output_vars>>

\* lines 591-611: a call of process_single_file; the list it hands to
\* subprocess.run is the one get_tippecanoe_command returned (line 601)
ProcessSingleFile ==
    /\ Len(plans) < MaxPlans
    /\ \E input \in ReplanInputs, outcome \in Outcomes(tool_installed) :
          \E run \in {process_single_file(input, disk, extent, outcome)} :
              /\ invocations' = invocations \o run.invocations
              /\ tile_dir' = tile_dir \cup OkArchives(run.invocations)
              /\ returned' = run.returned
              /\ IF run.invocations = <<>>
                 THEN UNCHANGED <<layer_name, filename_or_path, cmd, trace_vars>>
                 ELSE \E made \in {CommandList(heap, input, SingleTilePath(input),
                                                "layer", disk, extent)} :
                      /\ layer_name' = "layer"
                      /\ filename_or_path' = input
                      /\ heap' = made.heap
                      /\ cmd' = made.heap[made.ref]
                      /\ plans' = Append(plans, PlanCall("get_tippecanoe_command", "layer",
                                                         input, SingleTilePath(input),
                                                         made.ref, made.heap[made.ref]))
    /\ pc' = "single_file"
    /\ UNCHANGED <<main_vars, disk, settings, detect_calls, classifier_vars, escaped,
                   extent, tool_installed, skip, data_dir, overture_dir, custom_dirs,
                   theme_filter, filter_pattern, theme_i, log, custom_inputs, manifest>>

NextReplan == Replan \/ Resettle \/ Retheme \/ ValidateGeojson \/ ProcessSingleFile

SpecReplan == InitReplan /\ [][NextReplan]_vars

SameCall(p, q) ==
    /\ p.symbol = q.symbol
    /\ p.layer_name = q.layer_name
    /\ p.input_path = q.input_path
    /\ p.tile_path = q.tile_path
    /\ p.extent = q.extent
    /\ p.files = q.files

\* the bucket a call's settings are those of: the layer type, or the category
\* detected for the input
BucketOf(p) ==
    LET run == ResolveRun(p.layer_name, p.input_path, p.files)
    IN  IF run.layer_type # "" THEN run.layer_type ELSE run.geometry_type

\* the layer settings a call returned
SettingsOf(p) ==
    IF p.symbol = "get_layer_tippecanoe_settings" THEN p.result
    ELSE SubSeq(p.result, 20, Len(p.result))

\* the list base_cmd of a call of get_theme_tippecanoe_command, extended in
\* place by the settings list p that call was given
ExtendedBy(p) ==
    {r \in DOMAIN heap :
        /\ r # p.ref
        /\ Len(heap[r]) > Len(p.result) + 7
        /\ SubSeq(heap[r], 1, 2) = <<"tippecanoe", "-fo">>
        /\ heap[r][7] = "--cluster-maxzoom=11"
        /\ SubSeq(heap[r], Len(heap[r]) - Len(p.result) + 1, Len(heap[r])) = p.result}

\* C28: two calls of get_tippecanoe_command, or of
\* get_layer_tippecanoe_settings, with the same layer name, input path, output
\* path and extent over the same files return lists of the same items,
\* whatever calls were made between them; the settings returned for a bucket
\* are the same in every call that resolves to that bucket; and the list a
\* call returned holds the items it was returned with after every later call.
C28_PlannerPure ==
    \A i \in DOMAIN plans, j \in DOMAIN plans :
        /\ SameCall(plans[i], plans[j]) => plans[i].result = plans[j].result
        /\ BucketOf(plans[i]) = BucketOf(plans[j]) =>
              SettingsOf(plans[i]) = SettingsOf(plans[j])
        /\ heap[plans[i].ref] = plans[i].result

\* get_tippecanoe_command called over the file validate_geojson has cleaned,
\* then get_theme_tippecanoe_command, which extends its base_cmd in place by
\* the roads settings it was given, then the first call made again by
\* process_single_file: another list object with the items of the first
C28_Witness ==
    /\ Len(plans) = 3
    /\ pc = "single_file"
    /\ SameCall(plans[1], plans[3])
    /\ plans[1].symbol = "get_tippecanoe_command"
    /\ plans[1].layer_name = "layer"
    /\ plans[1].files[DATA_DIR] =
          Dumped(FeatureCollection(<<Feature(GeomTyped("Polygon"))>>))
    /\ BucketOf(plans[1]) = "Polygon"
    /\ plans[2].symbol = "get_layer_tippecanoe_settings"
    /\ plans[2].layer_name = "roads"
    /\ plans[2].input_path = NoArg
    /\ ExtendedBy(plans[2]) # {}
    /\ BucketOf(plans[1]) # BucketOf(plans[2])
    /\ plans[1].ref # plans[3].ref
    /\ heap[plans[1].ref] = heap[plans[3].ref]
    /\ heap[plans[3].ref] = cmd
    /\ Len(cmd) > 19
    /\ Len(invocations) = 1
    /\ invocations[1].cmd = cmd
    /\ returned = DictValue(TRUE, "Tiles generated successfully")

----------------------------------------------------------------------------
(* The template of a theme's argument vector, checked under SpecPlan *)

PrimaryThemes == {"base", "transportation", "places", "settlement-extents"}

\* C29: the argument vector get_theme_tippecanoe_command returns ends with the
\* template of the theme's primary layer type: base-polygons for theme "base",
\* roads for "transportation", places for "places", settlement-extents for
\* "settlement-extents"; none of these themes gets the Mixed/Unknown template.
C29_ThemeGetsPrimaryTemplate ==
    pc = "theme" =>
        /\ layer_name = "base" => EndsWith(cmd, base_polygons_settings)
        /\ layer_name = "transportation" => EndsWith(cmd, roads_settings)
        /\ layer_name = "places" => EndsWith(cmd, places_settings)
        /\ layer_name = "settlement-extents" => EndsWith(cmd, settlement_extents_settings)
        /\ layer_name \in PrimaryThemes => ~EndsWith(cmd, mixed_settings)

\* the vector of theme "base", ending with the Mixed/Unknown template
C29_Witness ==
    /\ pc = "theme"
    /\ layer_name = "base"
    /\ cmd[3] = PathStr(TILE_DIR, "base.pmtiles")
    /\ EndsWith(cmd, mixed_settings)
    /\ ~EndsWith(cmd, base_polygons_settings)

----------------------------------------------------------------------------
(* The layers of the recognized archives, checked under SpecCommand *)

\* the layer name of a layer declaration "name:path"
DeclaredName(declaration) ==
    LET colons == {i \in 1..Len(declaration) : CharAt(declaration, i) = ":"}
        first == CHOOSE i \in colons : \A j \in colons : i <= j
    IN  SubSeq(declaration, 1, first - 1)

\* the layer names an invocation passes to the tool: after -l, and at the
\* head of every --named-layer or -L declaration
PassedLayers(call) ==
    {call.cmd[i + 1] : i \in {k \in 1..(Len(call.cmd) - 1) : call.cmd[k] = "-l"}}
    \cup {DeclaredName(call.cmd[i + 1]) :
            i \in {k \in 1..(Len(call.cmd) - 1) : call.cmd[k] \in {"--named-layer", "-L"}}}

\* the layer ids the document declares for the archive a
ManifestLayers(a) == {Member("vector_layers")[k].id : k \in PlacesOf(a)}

\* the invocations of this run that built an archive the table recognizes
RecognizedBuilds ==
    {i \in 1..Len(invocations) :
        /\ invocations[i].outcome = "ok"
        /\ Basename(invocations[i].output) \in DOMAIN core_tiles}

\* C30: in the document written at the end of a run, the layer ids declared
\* for a recognized archive that the run built are the layer names its
\* invocation passed to the tool.
C30_ManifestLayersAreBuiltLayers ==
    pc = "assembled" =>
        \A i \in RecognizedBuilds :
            ManifestLayers(Basename(invocations[i].output)) = PassedLayers(invocations[i])

\* the low tier of the buildings, built with layer name "layer" and declared
\* with layer id "buildings"
C30_Witness ==
    /\ pc = "assembled"
    /\ \E i \in RecognizedBuilds :
          /\ invocations[i].unit = "buildings"
          /\ Basename(invocations[i].output) = "buildings_low_lod.pmtiles"
          /\ PassedLayers(invocations[i]) = {"layer"}
          /\ ManifestLayers("buildings_low_lod.pmtiles") = {"buildings"}

====
